---- MODULE Spec2Model ----
(***************************************************************************)
(* Upload ingestion and deployment pipeline of the static-site host:       *)
(* UploadProcessor (upload.js) on top of StorageManager (storage.js).      *)
(*                                                                         *)
(* A file name is modelled as the sequence of its "/"-separated segments:  *)
(* "sub/index.html" is <<"sub", "index.html">>, a leading "" is a leading  *)
(* "/" (absolute name) and a trailing "" is a trailing "/" (a directory    *)
(* entry of an archive).  A path of the file system is the sequence of     *)
(* segments below the root.  File content is a sequence of markup tokens.  *)
(***************************************************************************)
EXTENDS Integers, Sequences, FiniteSets, TLC

\* ------------------------------------------------------------------ bounds
MaxCalls == 2
MaxEntries == 2
MaxFaults == 1

\* ------------------------------------------------------- program constants
MAX_HTML_SIZE == 5000000
MAX_ZIP_SIZE == 25000000
ALLOWED_HTML_EXTENSIONS == {".html", ".htm"}
ALLOWED_ZIP_EXTENSIONS == {".zip"}
ALLOWED_ZIP_CONTENT ==
    {".html", ".htm", ".css", ".js", ".json", ".png", ".jpg", ".jpeg", ".gif",
     ".svg", ".webp", ".woff", ".woff2", ".ttf", ".otf", ".txt", ".md"}

\* --------------------------------------------------------- string helpers
\* path.extname of one segment (the text from the last "." of the base name,
\* "" when there is none or the name is "..")
ExtName(seg) ==
    CASE seg \in {"index.html", "site.html", "missing.html", "a/b.html"} -> ".html"
      [] seg = "INDEX.HTML" -> ".HTML"
      [] seg = "SITE.HTM" -> ".HTM"
      [] seg = "style.css" -> ".css"
      [] seg = "x.css" -> ".css"
      [] seg = "run.exe" -> ".exe"
      [] seg = "bundle.zip" -> ".zip"
      [] OTHER -> ""

\* String.prototype.toLowerCase
ToLower(s) ==
    CASE s = ".HTML" -> ".html"
      [] s = ".HTM" -> ".htm"
      [] s = "INDEX.HTML" -> "index.html"
      [] s = "SITE.HTM" -> "site.htm"
      [] OTHER -> s

\* String.prototype.includes('..') on one segment
HasDotDot(seg) == seg = ".."

Last(s) == s[Len(s)]
Front(s) == SubSeq(s, 1, Len(s) - 1)
IsPrefix(p, q) == Len(p) <= Len(q) /\ SubSeq(q, 1, Len(p)) = p

\* String.prototype.startsWith on one segment
SegStartsWith(seg, prefix) ==
    \/ seg = prefix
    \/ seg = "s1x" /\ prefix = "s1"

\* String.prototype.startsWith(dir) on a normalized absolute path: a textual
\* prefix, so the segment that follows may merely begin with the last one of dir
StartsWith(p, dir) ==
    /\ Len(p) >= Len(dir)
    /\ dir # <<>> => /\ SubSeq(p, 1, Len(dir) - 1) = Front(dir)
                     /\ SegStartsWith(p[Len(dir)], Last(dir))

\* ------------------------------------------------------------ path module
\* normalizeString of Node's path.posix: resolves "." and ".." segments and
\* drops empty ones; ".." above the start is kept only if allowAboveRoot
RECURSIVE NormalizeString(_, _, _)
NormalizeString(acc, rest, allowAboveRoot) ==
    IF rest = <<>> THEN acc
    ELSE LET s == Head(rest)
             t == Tail(rest)
         IN  IF s = "" \/ s = "." THEN NormalizeString(acc, t, allowAboveRoot)
             ELSE IF s = ".."
             THEN IF acc # <<>> /\ Last(acc) # ".."
                  THEN NormalizeString(Front(acc), t, allowAboveRoot)
                  ELSE IF allowAboveRoot
                       THEN NormalizeString(Append(acc, ".."), t, allowAboveRoot)
                       ELSE NormalizeString(acc, t, allowAboveRoot)
             ELSE NormalizeString(Append(acc, s), t, allowAboveRoot)

\* path.isAbsolute: the name starts with "/"
IsAbsolute(name) == Len(name) > 1 /\ name[1] = ""

\* path.normalize of a file name: the segments left, and whether it is absolute
Normalize(name) ==
    [abs |-> IsAbsolute(name),
     segs |-> NormalizeString(<<>>, name, ~IsAbsolute(name))]

\* path.join(base, name) for an absolute base path
Join(base, name) == NormalizeString(<<>>, base \o name, FALSE)

\* path.dirname of an absolute path
DirName(p) == IF p = <<>> THEN <<>> ELSE Front(p)

\* path.basename of a file name
BaseName(name) == IF name = <<>> THEN "" ELSE Last(name)

\* path.extname(fileName).toLowerCase()
LowerExt(name) == ToLower(ExtName(BaseName(name)))

\* ------------------------------------------------------------- sanitizer
\* sanitize-html under SANITIZE_OPTIONS, token by token.  A token is one
\* element: "h1_onclick" is <h1 onclick=...>, "img_js" is <img src="javascript:...">,
\* "a_js" is <a href="javascript:...">, "form_js" is <form action="javascript:...">.
\* script is rewritten to span, iframe/object/embed to div, a tag outside
\* allowedTags is discarded, an allowed tag is kept with its allowed attributes:
\* on* attributes are in no list, href and src are dropped unless their scheme
\* is in allowedSchemes / allowedSchemesByTag, and action (allowed on form) is
\* not an attribute the scheme lists are applied to
SanitizeToken(t) ==
    CASE t = "script" -> <<"span">>
      [] t \in {"iframe", "object", "embed"} -> <<"div">>
      [] t = "video" -> <<>>
      [] t = "h1_onclick" -> <<"h1">>
      [] t = "img_js" -> <<"img">>
      [] t = "a_js" -> <<"a">>
      [] OTHER -> <<t>>

RECURSIVE SanitizeHtml(_)
SanitizeHtml(html) ==
    IF html = <<>> THEN <<>>
    ELSE SanitizeToken(Head(html)) \o SanitizeHtml(Tail(html))

\* number of bytes of one token as written to disk
TokenBytes(t) ==
    CASE t = "script" -> 25
      [] t = "span" -> 21
      [] t = "iframe" -> 30
      [] t = "div" -> 11
      [] t = "video" -> 15
      [] t = "h1" -> 11
      [] t = "form_js" -> 42
      [] t = "img_js" -> 33
      [] OTHER -> 8

\* Buffer.byteLength / stats.size
RECURSIVE ByteLength(_)
ByteLength(c) == IF c = <<>> THEN 0 ELSE TokenBytes(Head(c)) + ByteLength(Tail(c))

\* ------------------------------------------------------------ file system
sitesDir == <<"app", "sites">>
tmpDir == <<"app", "tmp">>
staticDir == <<"app", "static">>

\* StorageManager.getSiteDir
getSiteDir(userId, siteId) == Join(sitesDir, <<userId, siteId>>)

\* StorageManager.getTempFilePath
getTempFilePath(filename) == Join(tmpDir, <<filename>>)

Prefixes(p) == {SubSeq(p, 1, n) : n \in 1..Len(p)}

\* fs.mkdir(dir, {recursive: true}): the directory and its missing ancestors
MkdirP(ds, dir) == ds \cup Prefixes(dir)

\* fs.writeFile / a completed copy: the file holds the content
WriteTo(fs, p, c) == [q \in DOMAIN fs \cup {p} |-> IF q = p THEN c ELSE fs[q]]

\* fs.unlink
Unlink(fs, p) == [q \in DOMAIN fs \ {p} |-> fs[q]]

\* fs.rm(dir, {recursive: true, force: true})
RmFiles(fs, dir) == [q \in {r \in DOMAIN fs : ~IsPrefix(dir, r)} |-> fs[q]]
RmDirs(ds, dir) == {d \in ds : ~IsPrefix(dir, d)}

EmptyFiles == [p \in {} |-> <<>>]

\* ----------------------------------------------------------------- inputs
UserIds == {"u1"}
SiteIds == {"s1", "s2"}
\* the site a request context deploys to: every request of one context
\* redeploys the same site, the two contexts deploy different sites
SiteIdOf(s) == IF s = 1 THEN "s1" ELSE "s2"
Types == {"html", "zip", "tar"}
OriginalNames == {"", "site.html", "SITE.HTM", "bundle.zip"}
\* file.size: the ceiling of the declared type and one byte more
SizesOf(type) ==
    IF type = "zip" THEN {MAX_ZIP_SIZE, MAX_ZIP_SIZE + 1}
    ELSE {MAX_HTML_SIZE, MAX_HTML_SIZE + 1}
Sizes == SizesOf("html") \cup SizesOf("zip")
HtmlContents == {<<"h1">>, <<"script", "h1">>, <<"img_js", "form_js">>}
\* the archive members an uploaded ZIP may hold: file name and decompressed content
Entries ==
    {[fileName |-> <<"index.html">>, content |-> <<"script">>],
     [fileName |-> <<"sub", "index.html">>, content |-> <<"h1">>],
     [fileName |-> <<"INDEX.HTML">>, content |-> <<"script">>],
     [fileName |-> <<"style.css">>, content |-> <<"css">>],
     [fileName |-> <<"..", "s2", "x.css">>, content |-> <<"css">>],
     [fileName |-> <<"", "etc", "x.css">>, content |-> <<"css">>],
     [fileName |-> <<"run.exe">>, content |-> <<"bin">>],
     [fileName |-> <<"sub", "">>, content |-> <<>>]}

VARIABLES
    files,          \* the file system: path -> content of every existing file
    dirs,           \* the file system: set of existing directories
    pc,             \* position of the processUpload call
    call,           \* arguments of the current (or last) processUpload call
    now,            \* Date.now(), one tick per call
    faults,         \* injected I/O failures so far
    entryCount,     \* archive entries read so far, over all calls
    result,         \* what the current (or last) call returned or threw
    sanitized,      \* processHtmlUpload: sanitizedHtml
    tempDir,        \* processZipUpload: tempDir (<<>> before it is chosen)
    extract,        \* state of the promise extractZip returned
    extractError,   \* the reason extractZip rejected with
    zpc,            \* extractZip: which callback of the archive is awaited
    entriesRead,    \* extractZip: the entries the archive has emitted so far
    hasIndexHtml,   \* extractZip: hasIndexHtml
    extractedFiles, \* extractZip: extractedFiles
    wstreams,       \* extractZip: the write streams created, in order
    j,              \* processZipUpload: index of the file being processed
    totalSize,      \* processZipUpload: totalSize
    processedFiles, \* processZipUpload: processedFiles
    written,        \* history: destination -> staged content read for it
    before,         \* history: files, dirs and faults when the call started
    other,          \* the request context that is not running: its saved variables
    slot,           \* which of the two request contexts is running (1 or 2)
    op,             \* history: the storage primitive called last and its arguments
    sites,          \* the sites table: one record per row
    req,            \* the API request the running context serves
    otherReq,       \* the API request of the context that is not running
    reqCount,       \* API requests received so far
    session,        \* visitor sessions: the flags site_access_<siteId> set
    passwordAttempts, \* the map passwordAttempts: ip -> count, lastAttempt
    clock,          \* Date.now() of the passcode rate limiter, in minutes
    resp            \* history: the last answer of the subdomain router

zipVars == <<tempDir, extract, extractError, zpc, entriesRead, hasIndexHtml,
             extractedFiles, wstreams>>
deployVars == <<j, totalSize, processedFiles, written>>
apiVars == <<sites, req, otherReq, reqCount>>
siteVars == <<session, passwordAttempts, clock, resp>>
envVars == <<other, slot, op, apiVars, siteVars>>
vars == <<files, dirs, pc, call, now, faults, entryCount, result, sanitized, zipVars,
          deployVars, before, envVars>>

NoCall == [originalname |-> "", size |-> 0, path |-> <<>>, type |-> "",
           userId |-> "", siteId |-> "", content |-> <<>>]
NoResult == [status |-> "none", type |-> "", files |-> <<>>, size |-> 0,
             hasIndexHtml |-> FALSE, reason |-> ""]
Failure(reason) == [NoResult EXCEPT !.status = "error", !.reason = reason]
NoOp == [name |-> "", userId |-> "", siteId |-> "", fileName |-> <<>>]
\* no API request is being served
NoReq == [route |-> "", stage |-> "none", userId |-> "", siteId |-> "", subdomain |-> "",
          filename |-> "", content |-> <<>>, passwordEnabled |-> FALSE,
          password |-> "", file |-> <<>>, status |-> 0, body |-> <<>>]
NoResp == [seq |-> 0, kind |-> "", status |-> 0, site |-> "", sid |-> "", ip |-> "",
           verify |-> FALSE, checked |-> FALSE]

\* the variables of a request context that has not been called yet
IdleContext ==
    [pc |-> "idle", call |-> NoCall, result |-> NoResult, sanitized |-> <<>>,
     tempDir |-> <<>>, extract |-> "none", extractError |-> "", zpc |-> "off",
     entriesRead |-> <<>>, hasIndexHtml |-> FALSE, extractedFiles |-> <<>>,
     wstreams |-> <<>>, j |-> 0, totalSize |-> 0, processedFiles |-> <<>>,
     written |-> EmptyFiles,
     before |-> [files |-> EmptyFiles, dirs |-> {}, faults |-> 0]]

siteDir == getSiteDir(call.userId, call.siteId)

\* an I/O operation of the step fails / no operation of the step fails
Fault == faults < MaxFaults /\ faults' = faults + 1
NoFault == faults' = faults

\* StorageManager.ensureDirectories has run
Init ==
    /\ files = EmptyFiles
    /\ dirs = {<<"app">>, sitesDir, tmpDir, staticDir}
    /\ pc = "idle"
    /\ call = NoCall
    /\ now = 0
    /\ faults = 0
    /\ entryCount = 0
    /\ result = NoResult
    /\ sanitized = <<>>
    /\ tempDir = <<>>
    /\ extract = "none"
    /\ extractError = ""
    /\ zpc = "off"
    /\ entriesRead = <<>>
    /\ hasIndexHtml = FALSE
    /\ extractedFiles = <<>>
    /\ wstreams = <<>>
    /\ j = 0
    /\ totalSize = 0
    /\ processedFiles = <<>>
    /\ written = EmptyFiles
    /\ before = [files |-> EmptyFiles, dirs |-> {}, faults |-> 0]
    /\ other = IdleContext
    /\ slot = 1
    /\ op = NoOp
    /\ sites = {}
    /\ req = NoReq
    /\ otherReq = NoReq
    /\ reqCount = 0
    /\ session = {}
    /\ passwordAttempts = [ip \in {} |-> 0]
    /\ clock = 0
    /\ resp = NoResp

\* mutants of validateFile: without the size checks, with the size checks
\* before the extension checks, and with >= in place of >
validateFile_NoSizeCheck(originalname, size, type) ==
    LET ext == ToLower(ExtName(originalname))
    IN  IF originalname = "" THEN "No file provided"
        ELSE IF type = "html"
        THEN IF ext \notin ALLOWED_HTML_EXTENSIONS
             THEN "Invalid file type. Expected .html or .htm"
             ELSE ""
        ELSE IF type = "zip"
        THEN IF ext \notin ALLOWED_ZIP_EXTENSIONS
             THEN "Invalid file type. Expected .zip"
             ELSE ""
        ELSE "Invalid upload type"

validateFile_SizeFirst(originalname, size, type) ==
    LET ext == ToLower(ExtName(originalname))
    IN  IF originalname = "" THEN "No file provided"
        ELSE IF type = "html"
        THEN IF size > MAX_HTML_SIZE THEN "HTML file too large"
             ELSE IF ext \notin ALLOWED_HTML_EXTENSIONS
             THEN "Invalid file type. Expected .html or .htm"
             ELSE ""
        ELSE IF type = "zip"
        THEN IF size > MAX_ZIP_SIZE THEN "ZIP file too large"
             ELSE IF ext \notin ALLOWED_ZIP_EXTENSIONS
             THEN "Invalid file type. Expected .zip"
             ELSE ""
        ELSE "Invalid upload type"

validateFile_SizeGe(originalname, size, type) ==
    LET ext == ToLower(ExtName(originalname))
    IN  IF originalname = "" THEN "No file provided"
        ELSE IF type = "html"
        THEN IF ext \notin ALLOWED_HTML_EXTENSIONS
             THEN "Invalid file type. Expected .html or .htm"
             ELSE IF size >= MAX_HTML_SIZE THEN "HTML file too large"
             ELSE ""
        ELSE IF type = "zip"
        THEN IF ext \notin ALLOWED_ZIP_EXTENSIONS
             THEN "Invalid file type. Expected .zip"
             ELSE IF size >= MAX_ZIP_SIZE THEN "ZIP file too large"
             ELSE ""
        ELSE "Invalid upload type"

\* UploadProcessor.validateFile: "" when the file is accepted, else the reason
validateFile(originalname, size, type) ==
    LET ext == ToLower(ExtName(originalname))
    IN  IF originalname = "" THEN "No file provided"
        ELSE IF type = "html"
        THEN IF ext \notin ALLOWED_HTML_EXTENSIONS
             THEN "Invalid file type. Expected .html or .htm"
             ELSE IF size > MAX_HTML_SIZE THEN "HTML file too large"
             ELSE ""
        ELSE IF type = "zip"
        THEN IF ext \notin ALLOWED_ZIP_EXTENSIONS
             THEN "Invalid file type. Expected .zip"
             ELSE IF size > MAX_ZIP_SIZE THEN "ZIP file too large"
             ELSE ""
        ELSE "Invalid upload type"

\* no callback of an earlier extraction is still to come
Quiescent ==
    /\ zpc \in {"off", "stopped"}
    /\ \A k \in 1..Len(wstreams) : wstreams[k].state \in {"closed", "error"}

\* processUpload(file, type, userId, siteId) up to its first await.  The
\* uploaded file was stored under tmp/ by the caller.
ProcessUploadCall(originalname, size, type, userId, siteId, content) ==
    /\ pc \in {"idle", "done"}
    /\ Quiescent
    /\ now < MaxCalls
    /\ LET path == getTempFilePath("upload-" \o ToString(now + 1))
           stored == WriteTo(files, path, IF type = "html" THEN content ELSE <<"zip">>)
           reason == validateFile(originalname, size, type)
       IN  /\ type # "html" => content = <<"h1">>
           /\ call' = [originalname |-> originalname, size |-> size, path |-> path,
                       type |-> type, userId |-> userId, siteId |-> siteId,
                       content |-> stored[path]]
           /\ files' = stored
           /\ before' = [files |-> stored, dirs |-> dirs, faults |-> faults]
           /\ IF reason # ""
              THEN /\ pc' = "done"
                   /\ result' = Failure(reason)
              ELSE /\ pc' = IF type = "html" THEN "html_read" ELSE "zip_mkdir"
                   /\ result' = NoResult
    /\ now' = now + 1
    /\ sanitized' = <<>>
    /\ tempDir' = <<>>
    /\ extract' = "none"
    /\ extractError' = ""
    /\ zpc' = "off"
    /\ entriesRead' = <<>>
    /\ hasIndexHtml' = FALSE
    /\ extractedFiles' = <<>>
    /\ wstreams' = <<>>
    /\ j' = 0
    /\ totalSize' = 0
    /\ processedFiles' = <<>>
    /\ written' = EmptyFiles
    /\ NoFault
    /\ UNCHANGED <<dirs, entryCount>>

\* processUpload called directly, with any file, type and ids
ProcessUpload ==
    /\ \E originalname \in OriginalNames, type \in Types, userId \in UserIds,
          siteId \in {SiteIdOf(slot)}, content \in HtmlContents :
       \E size \in SizesOf(type) :
         ProcessUploadCall(originalname, size, type, userId, siteId, content)
    /\ UNCHANGED envVars

\* mutant of HtmlRead: the content is stored as read
HtmlRead_Raw ==
    /\ pc = "html_read"
    /\ NoFault
    /\ call.path \in DOMAIN files
    /\ sanitized' = files[call.path]
    /\ pc' = "html_sitedir"
    /\ UNCHANGED <<files, dirs, call, now, entryCount, result, zipVars, deployVars,
                   before, envVars>>

\* processHtmlUpload: fs.readFile(file.path), then this.sanitizeHtml
HtmlRead ==
    /\ pc = "html_read"
    /\ \/ /\ NoFault
          /\ call.path \in DOMAIN files
          /\ sanitized' = SanitizeHtml(files[call.path])
          /\ pc' = "html_sitedir"
          /\ UNCHANGED result
       \/ /\ Fault
          /\ \E reason \in {"read failed", "Failed to sanitize HTML content"} :
               result' = Failure(reason)
          /\ pc' = "unlink"
          /\ UNCHANGED sanitized
    /\ UNCHANGED <<files, dirs, call, now, entryCount, zipVars, deployVars, before, envVars>>

\* StorageManager.writeFile: createSiteDir (ensureDir)
HtmlCreateSiteDir ==
    /\ pc = "html_sitedir"
    /\ \/ /\ NoFault
          /\ dirs' = MkdirP(dirs, siteDir)
          /\ pc' = "html_write"
          /\ UNCHANGED result
       \/ /\ Fault
          /\ result' = Failure("mkdir failed")
          /\ pc' = "unlink"
          /\ UNCHANGED dirs
    /\ UNCHANGED <<files, call, now, entryCount, sanitized, zipVars, deployVars, before, envVars>>

\* StorageManager.writeFile: containment check and fs.writeFile, then the
\* summary of processHtmlUpload
HtmlWrite ==
    /\ pc = "html_write"
    /\ LET filePath == Join(siteDir, <<"index.html">>)
       IN  \/ /\ NoFault
              /\ IF ~StartsWith(filePath, siteDir)
                 THEN /\ result' = Failure("path traversal detected")
                      /\ UNCHANGED files
                 ELSE /\ files' = WriteTo(files, filePath, sanitized)
                      /\ result' = [status |-> "ok", type |-> "html",
                                    files |-> << <<"index.html">> >>,
                                    size |-> ByteLength(sanitized),
                                    hasIndexHtml |-> FALSE, reason |-> ""]
           \/ /\ Fault
              /\ result' = Failure("write failed")
              /\ UNCHANGED files
    /\ pc' = "unlink"
    /\ UNCHANGED <<dirs, call, now, entryCount, sanitized, zipVars, deployVars, before, envVars>>

\* mutant of CleanupTempFile: a failed unlink is thrown to the caller
CleanupTempFile_Surface ==
    /\ pc = "unlink"
    /\ \/ /\ NoFault
          /\ files' = Unlink(files, call.path)
          /\ UNCHANGED result
       \/ /\ Fault
          /\ result' = Failure("unlink failed")
          /\ UNCHANGED files
    /\ pc' = "done"
    /\ UNCHANGED <<dirs, call, now, entryCount, sanitized, zipVars, deployVars, before, envVars>>

\* processUpload, finally: StorageManager.cleanupTempFile(file.path); a failed
\* unlink is logged only
CleanupTempFile ==
    /\ pc = "unlink"
    /\ \/ /\ NoFault
          /\ files' = Unlink(files, call.path)
       \/ /\ Fault
          /\ UNCHANGED files
    /\ pc' = "done"
    /\ UNCHANGED <<dirs, call, now, entryCount, result, sanitized, zipVars, deployVars, before, envVars>>

\* ---------------------------------------------------------------- ZIP path
\* reject(...) / resolve(...) of the promise of extractZip: only the first
\* settlement counts
Reject(reason) ==
    IF extract = "pending"
    THEN extract' = "rejected" /\ extractError' = reason
    ELSE UNCHANGED <<extract, extractError>>

Resolve ==
    IF extract = "pending"
    THEN extract' = "resolved" /\ UNCHANGED extractError
    ELSE UNCHANGED <<extract, extractError>>

\* mutant of IsDirectoryEntry: no entry is taken for a directory
IsDirectoryEntry_Never(fileName) == FALSE

\* /\/$/.test(entry.fileName)
IsDirectoryEntry(fileName) == Len(fileName) > 1 /\ Last(fileName) = ""

\* mutants of UnsafePath: the check without the '..' test, and without the
\* isAbsolute test
UnsafePath_AbsoluteOnly(fileName) == Normalize(fileName).abs

UnsafePath_DotDotOnly(fileName) ==
    \E i \in 1..Len(Normalize(fileName).segs) : HasDotDot(Normalize(fileName).segs[i])

\* normalizedPath.includes('..') || path.isAbsolute(normalizedPath)
UnsafePath(fileName) ==
    LET normalizedPath == Normalize(fileName)
    IN  \/ \E i \in 1..Len(normalizedPath.segs) : HasDotDot(normalizedPath.segs[i])
        \/ normalizedPath.abs

\* mutant of UnsupportedType: an allowlist that lets executables through
UnsupportedType_ExeAllowed(fileName) ==
    LowerExt(fileName) \notin (ALLOWED_ZIP_CONTENT \cup {".exe"})

\* !ALLOWED_ZIP_CONTENT.includes(path.extname(entry.fileName).toLowerCase())
UnsupportedType(fileName) == LowerExt(fileName) \notin ALLOWED_ZIP_CONTENT

\* mutant of IsIndexHtml: the comparison inverted
IsIndexHtml_Inverted(fileName) == ToLower(BaseName(fileName)) # "index.html"

\* path.basename(entry.fileName).toLowerCase() === 'index.html'
IsIndexHtml(fileName) == ToLower(BaseName(fileName)) = "index.html"

\* mutant of ZipMkdirTemp: one staging directory for every call
ZipMkdirTemp_SharedTemp ==
    /\ pc = "zip_mkdir"
    /\ LET dir == getTempFilePath("extract")
       IN  \/ /\ NoFault
              /\ tempDir' = dir
              /\ dirs' = MkdirP(dirs, dir)
              /\ extract' = "pending"
              /\ zpc' = "open"
              /\ pc' = "await_extract"
              /\ UNCHANGED result
           \/ /\ Fault
              /\ tempDir' = dir
              /\ result' = Failure("mkdir failed")
              /\ pc' = "unlink"
              /\ UNCHANGED <<dirs, extract, zpc>>
    /\ UNCHANGED <<files, call, now, entryCount, sanitized, extractError, entriesRead,
                   hasIndexHtml, extractedFiles, wstreams, deployVars, before, envVars>>

\* processZipUpload: tempDir = getTempFilePath(`extract_${siteId}_${Date.now()}`),
\* fs.mkdir(tempDir), then extractZip up to yauzl.open
ZipMkdirTemp ==
    /\ pc = "zip_mkdir"
    /\ LET dir == getTempFilePath("extract_" \o call.siteId \o "_" \o ToString(now))
       IN  \/ /\ NoFault
              /\ tempDir' = dir
              /\ dirs' = MkdirP(dirs, dir)
              /\ extract' = "pending"
              /\ zpc' = "open"
              /\ pc' = "await_extract"
              /\ UNCHANGED result
           \/ /\ Fault
              /\ tempDir' = dir
              /\ result' = Failure("mkdir failed")
              /\ pc' = "unlink"
              /\ UNCHANGED <<dirs, extract, zpc>>
    /\ UNCHANGED <<files, call, now, entryCount, sanitized, extractError, entriesRead,
                   hasIndexHtml, extractedFiles, wstreams, deployVars, before, envVars>>

\* callback of yauzl.open: reject on err, else zipfile.readEntry()
ZipOpen ==
    /\ zpc = "open"
    /\ \/ /\ NoFault
          /\ zpc' = "entry"
          /\ UNCHANGED <<extract, extractError>>
       \/ /\ Fault
          /\ Reject("Failed to open ZIP file")
          /\ zpc' = "stopped"
    /\ UNCHANGED <<files, dirs, pc, call, now, entryCount, result, sanitized, tempDir,
                   entriesRead, hasIndexHtml, extractedFiles, wstreams,
                   deployVars, before, envVars>>

\* zipfile.on('entry'): directory skip, path check, extension check, index
\* detection, zipfile.openReadStream
ZipEntry ==
    /\ zpc = "entry"
    /\ entryCount < MaxEntries
    /\ entryCount' = entryCount + 1
    /\ \E entry \in Entries :
         /\ entriesRead' = Append(entriesRead, entry)
         /\ IF IsDirectoryEntry(entry.fileName)
            THEN /\ zpc' = "entry"
                 /\ UNCHANGED <<extract, extractError, hasIndexHtml>>
            ELSE IF UnsafePath(entry.fileName)
            THEN /\ Reject("Invalid file path in ZIP")
                 /\ zpc' = "stopped"
                 /\ UNCHANGED hasIndexHtml
            ELSE IF UnsupportedType(entry.fileName)
            THEN /\ Reject("Unsupported file type in ZIP")
                 /\ zpc' = "stopped"
                 /\ UNCHANGED hasIndexHtml
            ELSE /\ hasIndexHtml' = (hasIndexHtml \/ IsIndexHtml(entry.fileName))
                 /\ zpc' = "stream"
                 /\ UNCHANGED <<extract, extractError>>
    /\ NoFault
    /\ UNCHANGED <<files, dirs, pc, call, now, result, sanitized, tempDir,
                   extractedFiles, wstreams, deployVars, before, envVars>>

\* callback of zipfile.openReadStream: reject on err, else mkdirSync of the
\* output directory, createWriteStream and pipe
ZipOpenReadStream ==
    /\ zpc = "stream"
    /\ LET entry == Last(entriesRead)
           outputPath == Join(tempDir, entry.fileName)
           outputDir == DirName(outputPath)
       IN  \/ /\ NoFault
              /\ dirs' = MkdirP(dirs, outputDir)
              /\ wstreams' = Append(wstreams,
                    [path |-> outputPath, data |-> entry.content, pos |-> 0,
                     state |-> "new", entry |-> Len(entriesRead)])
              /\ zpc' = "pipe"
              /\ UNCHANGED <<extract, extractError>>
           \/ /\ Fault
              /\ Reject("Failed to read")
              /\ zpc' = "stopped"
              /\ UNCHANGED <<dirs, wstreams>>
    /\ UNCHANGED <<files, pc, call, now, entryCount, result, sanitized, tempDir, entriesRead,
                   hasIndexHtml, extractedFiles, deployVars, before, envVars>>

\* readStream.on('end'): extractedFiles.push, zipfile.readEntry();
\* readStream.on('error'): reject
ZipReadStreamEnd ==
    /\ zpc = "pipe"
    /\ \/ /\ NoFault
          /\ extractedFiles' = Append(extractedFiles, Last(entriesRead).fileName)
          /\ zpc' = "entry"
          /\ UNCHANGED <<extract, extractError>>
       \/ /\ Fault
          /\ Reject("Failed to extract")
          /\ zpc' = "stopped"
          /\ UNCHANGED extractedFiles
    /\ UNCHANGED <<files, dirs, pc, call, now, entryCount, result, sanitized, tempDir,
                   entriesRead, hasIndexHtml, wstreams, deployVars, before, envVars>>

\* zipfile.on('end'): reject without index.html, else resolve;
\* zipfile.on('error'): reject
ZipEnd ==
    /\ zpc = "entry"
    /\ \/ /\ NoFault
          /\ IF ~hasIndexHtml
             THEN Reject("ZIP file must contain an index.html file")
             ELSE Resolve
       \/ /\ Fault
          /\ Reject("ZIP processing error")
    /\ zpc' = "stopped"
    /\ UNCHANGED <<files, dirs, pc, call, now, entryCount, result, sanitized, tempDir,
                   entriesRead, hasIndexHtml, extractedFiles, wstreams,
                   deployVars, before, envVars>>

\* write of one block at a position of a file (the gap, if any, reads as nul)
PWrite(c, pos, tok) ==
    IF Len(c) > pos
    THEN [c EXCEPT ![pos + 1] = tok]
    ELSE c \o [i \in 1..(pos - Len(c)) |-> "nul"] \o <<tok>>

\* fs.createWriteStream(outputPath): the file is opened (created, truncated)
\* after the call returned; writeStream.on('error') rejects and nothing else
WriteStreamOpen(k) ==
    /\ wstreams[k].state = "new"
    /\ LET w == wstreams[k]
       IN  IF DirName(w.path) \in dirs /\ w.path \notin dirs /\ faults' = faults
           THEN /\ files' = WriteTo(files, w.path, <<>>)
                /\ wstreams' = [wstreams EXCEPT ![k].state =
                                   IF w.data = <<>> THEN "closed" ELSE "open"]
                /\ UNCHANGED <<extract, extractError>>
           ELSE /\ Reject("Failed to write")
                /\ wstreams' = [wstreams EXCEPT ![k].state = "error"]
                /\ UNCHANGED files

\* the write stream writes its next block to the open file; a stream whose
\* file was removed keeps writing to the unlinked file
WriteStreamWrite(k) ==
    /\ wstreams[k].state \in {"open", "orphan"}
    /\ LET w == wstreams[k]
           closing == w.pos + 1 = Len(w.data)
       IN  IF faults' = faults
           THEN /\ files' = IF w.state = "open"
                            THEN WriteTo(files, w.path,
                                         PWrite(files[w.path], w.pos, w.data[w.pos + 1]))
                            ELSE files
                /\ wstreams' = [wstreams EXCEPT ![k].pos = w.pos + 1,
                                   ![k].state = IF closing THEN "closed" ELSE w.state]
                /\ UNCHANGED <<extract, extractError>>
           ELSE /\ Reject("Failed to write")
                /\ wstreams' = [wstreams EXCEPT ![k].state = "error"]
                /\ UNCHANGED files

WriteStream ==
    /\ \E k \in 1..Len(wstreams) :
         /\ NoFault \/ Fault
         /\ WriteStreamOpen(k) \/ WriteStreamWrite(k)
    /\ UNCHANGED <<dirs, pc, call, now, entryCount, result, sanitized, tempDir, zpc,
                   entriesRead, hasIndexHtml, extractedFiles, deployVars, before, envVars>>

\* mutant of ZipAwaitExtract: a rejection of extractZip is swallowed
ZipAwaitExtract_Swallow ==
    /\ pc = "await_extract"
    /\ extract \in {"resolved", "rejected"}
    /\ pc' = "zip_sitedir"
    /\ NoFault
    /\ UNCHANGED <<files, dirs, call, now, entryCount, result, sanitized, zipVars,
                   deployVars, before, envVars>>

\* processZipUpload: await this.extractZip(...) returns or throws
ZipAwaitExtract ==
    /\ pc = "await_extract"
    /\ extract \in {"resolved", "rejected"}
    /\ IF extract = "rejected"
       THEN /\ result' = Failure(extractError)
            /\ pc' = "zip_rm"
       ELSE /\ pc' = "zip_sitedir"
            /\ UNCHANGED result
    /\ NoFault
    /\ UNCHANGED <<files, dirs, call, now, entryCount, sanitized, zipVars, deployVars, before, envVars>>

\* processZipUpload: storage.createSiteDir(userId, siteId)
ZipCreateSiteDir ==
    /\ pc = "zip_sitedir"
    /\ \/ /\ NoFault
          /\ dirs' = MkdirP(dirs, siteDir)
          /\ j' = 1
          /\ pc' = "deploy_stat"
          /\ UNCHANGED result
       \/ /\ Fault
          /\ result' = Failure("mkdir failed")
          /\ pc' = "zip_rm"
          /\ UNCHANGED <<dirs, j>>
    /\ UNCHANGED <<files, call, now, entryCount, sanitized, zipVars, totalSize,
                   processedFiles, written, before, envVars>>

\* processZipUpload, loop body: fs.stat(filePath), totalSize += stats.size
ZipStat ==
    /\ pc = "deploy_stat"
    /\ LET filePath == Join(tempDir, extractedFiles[j])
       IN  \/ /\ NoFault
              /\ IF filePath \in DOMAIN files
                 THEN /\ totalSize' = totalSize + ByteLength(files[filePath])
                      /\ pc' = "deploy_write"
                      /\ UNCHANGED result
                 ELSE /\ result' = Failure("ENOENT")
                      /\ pc' = "zip_rm"
                      /\ UNCHANGED totalSize
           \/ /\ Fault
              /\ result' = Failure("stat failed")
              /\ pc' = "zip_rm"
              /\ UNCHANGED totalSize
    /\ UNCHANGED <<files, dirs, call, now, entryCount, sanitized, zipVars, j,
                   processedFiles, written, before, envVars>>

\* mutant of IsHtmlFile: only the exact extension .html
IsHtmlFile_ExactHtml(fileName) == ExtName(BaseName(fileName)) = ".html"

\* the extension test of the loop body
IsHtmlFile(fileName) == LowerExt(fileName) = ".html" \/ LowerExt(fileName) = ".htm"

\* mutant of ZipDeployFile: a file that cannot be written is skipped
ZipDeployFile_SkipFailed ==
    /\ pc = "deploy_write"
    /\ LET fileName == extractedFiles[j]
           filePath == Join(tempDir, fileName)
           destPath == Join(siteDir, fileName)
           destDir == DirName(destPath)
           staged == files[filePath]
           content == IF IsHtmlFile(fileName) THEN SanitizeHtml(staged) ELSE staged
           done == Append(processedFiles, fileName)
       IN  /\ \/ /\ NoFault
                 /\ dirs' = MkdirP(dirs, destDir)
                 /\ files' = WriteTo(files, destPath, content)
                 /\ written' = WriteTo(written, destPath, staged)
                 /\ processedFiles' = done
              \/ /\ Fault
                 /\ UNCHANGED <<files, dirs, written, processedFiles>>
           /\ j' = j + 1
           /\ IF j = Len(extractedFiles)
              THEN /\ result' = [status |-> "ok", type |-> "zip",
                                 files |-> processedFiles', size |-> totalSize,
                                 hasIndexHtml |-> hasIndexHtml, reason |-> ""]
                   /\ pc' = "zip_rm"
              ELSE /\ pc' = "deploy_stat"
                   /\ UNCHANGED result
    /\ UNCHANGED <<call, now, entryCount, sanitized, zipVars, totalSize, before, envVars>>

\* processZipUpload, loop body: sanitize and write an HTML file, copy any
\* other file, processedFiles.push; after the last file the summary
ZipDeployFile ==
    /\ pc = "deploy_write"
    /\ LET fileName == extractedFiles[j]
           filePath == Join(tempDir, fileName)
           destPath == Join(siteDir, fileName)
           destDir == DirName(destPath)
           staged == files[filePath]
           content == IF IsHtmlFile(fileName) THEN SanitizeHtml(staged) ELSE staged
           done == Append(processedFiles, fileName)
       IN  \/ /\ NoFault
              /\ dirs' = MkdirP(dirs, destDir)
              /\ files' = WriteTo(files, destPath, content)
              /\ written' = WriteTo(written, destPath, staged)
              /\ processedFiles' = done
              /\ j' = j + 1
              /\ IF j = Len(extractedFiles)
                 THEN /\ result' = [status |-> "ok", type |-> "zip", files |-> done,
                                    size |-> totalSize,
                                    hasIndexHtml |-> hasIndexHtml, reason |-> ""]
                      /\ pc' = "zip_rm"
                 ELSE /\ pc' = "deploy_stat"
                      /\ UNCHANGED result
           \/ /\ Fault
              /\ \E reason \in {"Failed to sanitize HTML content", "write failed"} :
                   result' = Failure(reason)
              /\ pc' = "zip_rm"
              /\ UNCHANGED <<files, dirs, written, processedFiles, j>>
    /\ UNCHANGED <<call, now, entryCount, sanitized, zipVars, totalSize, before, envVars>>

\* what fs.rm of dir makes of a write stream below it: an open stream writes
\* on to its unlinked file, unseen; a stream not yet opened fails to open once
\* nothing can create the directory again (the archive emits no more events)
Orphaned(w, dir, over) ==
    IF ~IsPrefix(dir, w.path) THEN w
    ELSE IF w.state = "open" THEN [w EXCEPT !.state = IF over THEN "closed" ELSE "orphan"]
    ELSE IF w.state = "new" /\ over THEN [w EXCEPT !.state = "error"]
    ELSE w

\* processZipUpload, finally: fs.rm(tempDir, {recursive, force}); a failure is
\* logged only
ZipRmTemp ==
    /\ pc = "zip_rm"
    /\ \/ /\ NoFault
          /\ files' = RmFiles(files, tempDir)
          /\ dirs' = RmDirs(dirs, tempDir)
          /\ wstreams' = [k \in 1..Len(wstreams) |->
                Orphaned(wstreams[k], tempDir, zpc = "stopped")]
       \/ /\ Fault
          /\ UNCHANGED <<files, dirs, wstreams>>
    /\ pc' = "unlink"
    /\ UNCHANGED <<call, now, entryCount, result, sanitized, tempDir, extract, extractError,
                   zpc, entriesRead, hasIndexHtml, extractedFiles, deployVars,
                   before, envVars>>

\* ------------------------------------------------------ concurrent requests
\* the event loop runs the next callback of the other request: two calls of
\* processUpload interleave at every await and every stream event
Switch ==
    /\ other' = [pc |-> pc, call |-> call, result |-> result, sanitized |-> sanitized,
                 tempDir |-> tempDir, extract |-> extract,
                 extractError |-> extractError, zpc |-> zpc,
                 entriesRead |-> entriesRead, hasIndexHtml |-> hasIndexHtml,
                 extractedFiles |-> extractedFiles, wstreams |-> wstreams, j |-> j,
                 totalSize |-> totalSize, processedFiles |-> processedFiles,
                 written |-> written, before |-> before]
    /\ pc' = other.pc
    /\ call' = other.call
    /\ result' = other.result
    /\ sanitized' = other.sanitized
    /\ tempDir' = other.tempDir
    /\ extract' = other.extract
    /\ extractError' = other.extractError
    /\ zpc' = other.zpc
    /\ entriesRead' = other.entriesRead
    /\ hasIndexHtml' = other.hasIndexHtml
    /\ extractedFiles' = other.extractedFiles
    /\ wstreams' = other.wstreams
    /\ j' = other.j
    /\ totalSize' = other.totalSize
    /\ processedFiles' = other.processedFiles
    /\ written' = other.written
    /\ before' = other.before
    /\ slot' = 3 - slot
    /\ req' = otherReq
    /\ otherReq' = req
    /\ UNCHANGED <<files, dirs, now, faults, entryCount, op, sites, reqCount, siteVars>>

\* ------------------------------------------------------ storage primitives
\* the names the storage primitives are called with
StorageNames ==
    {<<"f.txt">>, <<"sub">>, <<"sub", "f.txt">>, <<"..", "s1x">>,
     <<"..", "s1x", "f.txt">>, <<"..", "s2", "f.txt">>, <<"..", "..", "u2">>}
StorageContents == {<<"h1">>}
Ok == [NoResult EXCEPT !.status = "ok"]

\* fs.writeFile / fs.copyFile can write the path: its directory exists and the
\* path is not itself a directory
Writable(ds, p) == DirName(p) \in ds /\ p \notin ds

\* StorageManager.ensureDir: nothing if the path exists, else mkdir recursive,
\* which fails when a file stands where a directory is needed
EnsureDirFails(fs, ds, dir) ==
    dir \notin ds /\ dir \notin DOMAIN fs /\ Prefixes(dir) \cap DOMAIN fs # {}
EnsureDir(fs, ds, dir) ==
    IF dir \in ds \/ dir \in DOMAIN fs \/ EnsureDirFails(fs, ds, dir) THEN ds
    ELSE MkdirP(ds, dir)

\* StorageManager.writeFile(userId, siteId, fileName, content)
StorageWriteFile ==
    \E userId \in UserIds, siteId \in {SiteIdOf(slot)}, fileName \in StorageNames,
       content \in StorageContents :
      LET dir == getSiteDir(userId, siteId)
          filePath == Join(dir, fileName)
          made == EnsureDir(files, dirs, dir)
      IN  /\ op' = [name |-> "writeFile", userId |-> userId, siteId |-> siteId,
                    fileName |-> fileName]
          /\ dirs' = made
          /\ IF ~StartsWith(filePath, dir)
             THEN /\ result' = Failure("path traversal detected")
                  /\ UNCHANGED files
             ELSE IF Writable(made, filePath)
             THEN /\ files' = WriteTo(files, filePath, content)
                  /\ result' = Ok
             ELSE /\ result' = Failure("write failed")
                  /\ UNCHANGED files
          /\ UNCHANGED <<pc, call, now, faults, entryCount, sanitized, zipVars,
                         deployVars, before, other, slot, apiVars, siteVars>>

\* StorageManager.copyFile(sourcePath, userId, siteId, fileName)
StorageCopyFile ==
    \E userId \in UserIds, siteId \in {SiteIdOf(slot)}, fileName \in StorageNames,
       sourcePath \in DOMAIN files \cup {getTempFilePath("missing")} :
      LET dir == getSiteDir(userId, siteId)
          destPath == Join(dir, fileName)
          made == EnsureDir(files, dirs, dir)
      IN  /\ op' = [name |-> "copyFile", userId |-> userId, siteId |-> siteId,
                    fileName |-> fileName]
          /\ dirs' = made
          /\ IF ~StartsWith(destPath, dir)
             THEN /\ result' = Failure("path traversal detected")
                  /\ UNCHANGED files
             ELSE IF sourcePath \in DOMAIN files /\ Writable(made, destPath)
             THEN /\ files' = WriteTo(files, destPath, files[sourcePath])
                  /\ result' = Ok
             ELSE /\ result' = Failure("copy failed")
                  /\ UNCHANGED files
          /\ UNCHANGED <<pc, call, now, faults, entryCount, sanitized, zipVars,
                         deployVars, before, other, slot, apiVars, siteVars>>

\* StorageManager.createSubdir(userId, siteId, subdirName)
StorageCreateSubdir ==
    \E userId \in UserIds, siteId \in {SiteIdOf(slot)}, subdirName \in StorageNames :
      LET dir == getSiteDir(userId, siteId)
          subdirPath == Join(dir, subdirName)
      IN  /\ op' = [name |-> "createSubdir", userId |-> userId, siteId |-> siteId,
                    fileName |-> subdirName]
          /\ IF ~StartsWith(subdirPath, dir)
             THEN /\ result' = Failure("path traversal detected")
                  /\ UNCHANGED dirs
             ELSE IF EnsureDirFails(files, dirs, subdirPath)
             THEN /\ result' = Failure("mkdir failed")
                  /\ UNCHANGED dirs
             ELSE /\ dirs' = EnsureDir(files, dirs, subdirPath)
                  /\ result' = Ok
          /\ UNCHANGED <<files, pc, call, now, faults, entryCount, sanitized, zipVars,
                         deployVars, before, other, slot, apiVars, siteVars>>

\* ---------------------------------------------------------------- API routes
MaxReqs == 3

ApiUsers == {"u1", "u2"}
Undefined == "undefined"
\* req.body.subdomain as sent
Subdomains == {"", "a", "A ", "www"}
\* req.body.type as sent
ApiTypes == {"html", "tar"}
\* file.originalname of the multipart upload ("": no file part)
ApiOriginalNames == {"", "site.html", "bundle.zip"}
\* req.body.password / req.body.passcode as sent
Passcodes == {"123456", "12", Undefined}
\* :filename of the file routes, URL-decoded
ApiFileNames == {"index.html", "a/b.html", "run.exe", "missing.html"}
\* req.body.content of the file update
ApiContents == {<<"script">>, <<Undefined>>}

\* multer fileFilter: the extension of originalname is .html, .htm or .zip
FileFilter(originalname) ==
    ToLower(ExtName(originalname)) \in {".html", ".htm", ".zip"}

\* subdomain.toLowerCase().trim()
LowerTrim(s) == IF s = "A " THEN "a" ELSE s

\* /^[a-z0-9]([a-z0-9-]{0,61}[a-z0-9])?$/.test(subdomain)
SubdomainRegex(s) == s \in {"a", "b", "www", "mysite", "open", "my"}

Reserved ==
    {"www", "api", "admin", "mail", "ftp", "localhost", "app", "staging", "dev", "test"}

\* validateSubdomain
validateSubdomain(subdomain) ==
    LET s == LowerTrim(subdomain)
    IN  IF subdomain = ""
        THEN [valid |-> FALSE, error |-> "Subdomain is required", subdomain |-> ""]
        ELSE IF ~SubdomainRegex(s)
        THEN [valid |-> FALSE, error |-> "invalid format", subdomain |-> ""]
        ELSE IF s \in Reserved
        THEN [valid |-> FALSE, error |-> "reserved", subdomain |-> ""]
        ELSE [valid |-> TRUE, error |-> "", subdomain |-> s]

\* isValidPasscode: /^[0-9]{6}$/.test(passcode.toString()); undefined.toString()
\* throws
IsValidPasscodeThrows(passcode) == passcode = Undefined
isValidPasscode(passcode) == passcode \in {"123456", "654321"}

\* bcrypt.hash / bcrypt.compare
Null == ""
hashPasscode(passcode) == "bcrypt:" \o passcode
verifyPasscode(passcode, hash) ==
    isValidPasscode(passcode) /\ hash # Null /\ hash = hashPasscode(passcode)

\* checkSiteOwnership: SELECT * FROM sites WHERE id = ? AND owner_id = ?
checkSiteOwnership(siteId, userId) ==
    {r \in sites : r.id = siteId /\ r.owner_id = userId}

\* the variables of the processUpload call of the running context
callVars == <<pc, call, result, sanitized, zipVars, deployVars, before>>

\* the running context takes a new request
Accept ==
    /\ req.stage \in {"none", "done"}
    /\ reqCount < MaxReqs
    /\ reqCount' = reqCount + 1

\* res.status(status).json(body): the request is over; what identifies it is kept
Respond(r, status, body) ==
    [NoReq EXCEPT !.route = r.route, !.userId = r.userId, !.siteId = r.siteId,
                  !.subdomain = r.subdomain, !.file = r.file, !.stage = "done",
                  !.status = status, !.body = body]

\* POST /upload: multer stores the file, the handler checks the fields, the
\* passcode, the type, the subdomain and its availability, generates the site
\* id and calls processUpload
ApiUpload ==
    /\ Accept
    /\ \E userId \in ApiUsers, type \in ApiTypes, subdomain \in Subdomains,
          originalname \in ApiOriginalNames, enablePassword \in BOOLEAN,
          password \in Passcodes :
         LET validation == validateSubdomain(subdomain)
             content == IF type = "html" THEN <<"script", "h1">> ELSE <<"h1">>
             path == getTempFilePath("upload-" \o ToString(now + 1))
             siteId == SiteIdOf(slot)
             r == [NoReq EXCEPT !.route = "upload", !.userId = userId,
                                !.passwordEnabled = enablePassword,
                                !.password = IF enablePassword THEN password ELSE ""]
             early ==
                 IF subdomain = "" THEN 400
                 ELSE IF enablePassword /\ IsValidPasscodeThrows(password) THEN 400
                 ELSE IF enablePassword /\ ~isValidPasscode(password) THEN 400
                 ELSE IF type \notin {"html", "zip"} THEN 400
                 ELSE IF ~validation.valid THEN 400
                 ELSE IF \E s \in sites : s.subdomain = validation.subdomain THEN 409
                 ELSE 0
         IN  IF ~FileFilter(originalname)
             THEN /\ req' = Respond(r, 400, <<>>)
                  /\ UNCHANGED <<files, dirs, now, faults, entryCount, callVars>>
             ELSE IF early # 0
             THEN /\ now < MaxCalls
                  /\ now' = now + 1
                  /\ files' = WriteTo(files, path, content)
                  /\ req' = Respond([r EXCEPT !.file = path], early, <<>>)
                  /\ UNCHANGED <<dirs, faults, entryCount, callVars>>
             ELSE /\ \A s \in sites : s.id # siteId
                  /\ getSiteDir(userId, siteId) \notin dirs
                  /\ ProcessUploadCall(originalname, MAX_HTML_SIZE, type, userId,
                                       siteId, content)
                  /\ req' = [r EXCEPT !.stage = "process", !.file = path,
                                      !.siteId = siteId,
                                      !.subdomain = validation.subdomain]
    /\ UNCHANGED <<other, slot, op, sites, otherReq, siteVars>>

\* mutant of InsertSite: the table without its UNIQUE constraint on subdomain
InsertSite_NoUnique(r, passwordHash) ==
    IF \E s \in sites : s.id = r.siteId
    THEN /\ req' = Respond(r, 400, <<>>)
         /\ UNCHANGED sites
    ELSE /\ sites' = sites \cup {[id |-> r.siteId, owner_id |-> r.userId,
                                  subdomain |-> r.subdomain,
                                  password_enabled |-> r.passwordEnabled,
                                  password_hash |-> passwordHash]}
         /\ req' = Respond(r, 200, <<r.siteId, r.subdomain>>)

\* POST /upload: INSERT INTO sites; the PRIMARY KEY and the UNIQUE constraint
\* on subdomain make db.run throw, which the catch answers with 400
InsertSite(r, passwordHash) ==
    IF \E s \in sites : s.id = r.siteId \/ s.subdomain = r.subdomain
    THEN /\ req' = Respond(r, 400, <<>>)
         /\ UNCHANGED sites
    ELSE /\ sites' = sites \cup {[id |-> r.siteId, owner_id |-> r.userId,
                                  subdomain |-> r.subdomain,
                                  password_enabled |-> r.passwordEnabled,
                                  password_hash |-> passwordHash]}
         /\ req' = Respond(r, 200, <<r.siteId, r.subdomain>>)

\* POST /upload after await processUpload: the catch on a failure, else the
\* passcode hash when protection is asked for, else the INSERT and the answer
ApiUploadReturn ==
    /\ req.route = "upload"
    /\ req.stage = "process"
    /\ pc = "done"
    /\ IF result.status = "error"
       THEN /\ req' = Respond(req, 400, <<>>)
            /\ UNCHANGED sites
       ELSE IF req.passwordEnabled /\ req.password # ""
       THEN /\ req' = [req EXCEPT !.stage = "hash"]
            /\ UNCHANGED sites
       ELSE InsertSite(req, Null)
    /\ NoFault
    /\ UNCHANGED <<files, dirs, now, entryCount, callVars, other, slot, op, otherReq,
                   reqCount, siteVars>>

\* POST /upload after await hashPasscode: the INSERT and the answer
ApiUploadHashed ==
    /\ req.route = "upload"
    /\ req.stage = "hash"
    /\ \/ /\ NoFault
          /\ InsertSite(req, hashPasscode(req.password))
       \/ /\ Fault
          /\ req' = Respond(req, 400, <<>>)
          /\ UNCHANGED sites
    /\ UNCHANGED <<files, dirs, now, entryCount, callVars, other, slot, op, otherReq,
                   reqCount, siteVars>>

\* path.join(__dirname, 'sites', userId, siteId, filename)
SiteFilePath(userId, siteId, filename) ==
    Join(getSiteDir(userId, siteId), <<filename>>)

EditableExtensions == {".html", ".htm", ".css", ".js", ".txt", ".json", ".xml"}

\* filename.includes('/') || filename.includes('\\')
HasSeparator(filename) == filename = "a/b.html"

\* PUT /sites/:siteId/files/:filename up to fs.access: content, filename and
\* extension checks, ownership, existence of the file
ApiPutFile ==
    /\ Accept
    /\ \E userId \in ApiUsers, siteId \in SiteIds, filename \in ApiFileNames,
          content \in ApiContents :
         LET r == [NoReq EXCEPT !.route = "putFile", !.userId = userId,
                                !.siteId = siteId, !.filename = filename,
                                !.content = content]
             filePath == SiteFilePath(userId, siteId, filename)
         IN  req' =
               IF content = <<Undefined>> THEN Respond(r, 400, <<>>)
               ELSE IF HasSeparator(filename) THEN Respond(r, 400, <<>>)
               ELSE IF ToLower(ExtName(filename)) \notin EditableExtensions
               THEN Respond(r, 400, <<>>)
               ELSE IF checkSiteOwnership(siteId, userId) = {} THEN Respond(r, 404, <<>>)
               ELSE IF filePath \notin DOMAIN files THEN Respond(r, 404, <<>>)
               ELSE [r EXCEPT !.stage = "put_write"]
    /\ NoFault
    /\ UNCHANGED <<files, dirs, now, entryCount, callVars, other, slot, op, sites,
                   otherReq, siteVars>>

\* PUT /sites/:siteId/files/:filename: fs.writeFile(filePath, content), fs.stat
\* and the answer; ENOENT answers 404, any other error 500
ApiPutWrite ==
    /\ req.route = "putFile"
    /\ req.stage = "put_write"
    /\ LET filePath == SiteFilePath(req.userId, req.siteId, req.filename)
       IN  \/ /\ NoFault
              /\ IF Writable(dirs, filePath)
                 THEN /\ files' = WriteTo(files, filePath, req.content)
                      /\ req' = Respond(req, 200, <<>>)
                 ELSE /\ req' = Respond(req, 404, <<>>)
                      /\ UNCHANGED files
           \/ /\ Fault
              /\ req' = Respond(req, 500, <<>>)
              /\ UNCHANGED files
    /\ UNCHANGED <<dirs, now, entryCount, callVars, other, slot, op, sites, otherReq,
                   reqCount, siteVars>>

\* DELETE /sites/:siteId: ownership, DELETE FROM sites, execSync rm -rf of the
\* site directory (a failure is logged only), the answer
ApiDeleteSite ==
    /\ Accept
    /\ \E userId \in ApiUsers, siteId \in SiteIds :
         LET r == [NoReq EXCEPT !.route = "deleteSite", !.userId = userId,
                                !.siteId = siteId]
             dir == getSiteDir(userId, siteId)
         IN  IF checkSiteOwnership(siteId, userId) = {}
             THEN /\ req' = Respond(r, 404, <<>>)
                  /\ NoFault
                  /\ UNCHANGED <<files, dirs, sites>>
             ELSE /\ sites' = {s \in sites : ~(s.id = siteId /\ s.owner_id = userId)}
                  /\ \/ /\ NoFault
                        /\ files' = RmFiles(files, dir)
                        /\ dirs' = RmDirs(dirs, dir)
                     \/ /\ Fault
                        /\ UNCHANGED <<files, dirs>>
                  /\ req' = Respond(r, 200, <<>>)
    /\ UNCHANGED <<now, entryCount, callVars, other, slot, op, otherReq, siteVars>>

\* PUT /sites/:siteId/password up to await hashPasscode: passcode format,
\* ownership
ApiSetPassword ==
    /\ Accept
    /\ \E userId \in ApiUsers, siteId \in SiteIds, password \in Passcodes :
         LET r == [NoReq EXCEPT !.route = "setPassword", !.userId = userId,
                                !.siteId = siteId, !.password = password]
         IN  req' =
               IF IsValidPasscodeThrows(password) THEN Respond(r, 500, <<>>)
               ELSE IF ~isValidPasscode(password) THEN Respond(r, 400, <<>>)
               ELSE IF checkSiteOwnership(siteId, userId) = {} THEN Respond(r, 404, <<>>)
               ELSE [r EXCEPT !.stage = "pw_hash"]
    /\ NoFault
    /\ UNCHANGED <<files, dirs, now, entryCount, callVars, other, slot, op, sites,
                   otherReq, siteVars>>

\* UPDATE sites SET password_hash = ?, password_enabled = ? WHERE id = ?
UpdatePassword(siteId, hash, enabled) ==
    {IF s.id = siteId
     THEN [s EXCEPT !.password_hash = hash, !.password_enabled = enabled]
     ELSE s : s \in sites}

\* PUT /sites/:siteId/password after await hashPasscode: the UPDATE and the
\* answer
ApiSetPasswordHashed ==
    /\ req.route = "setPassword"
    /\ req.stage = "pw_hash"
    /\ \/ /\ NoFault
          /\ sites' = UpdatePassword(req.siteId, hashPasscode(req.password), TRUE)
          /\ req' = Respond(req, 200, <<>>)
       \/ /\ Fault
          /\ req' = Respond(req, 500, <<>>)
          /\ UNCHANGED sites
    /\ UNCHANGED <<files, dirs, now, entryCount, callVars, other, slot, op, otherReq,
                   reqCount, siteVars>>

\* mutant of ApiRemovePassword: the UPDATE without the ownership check
ApiRemovePassword_NoOwnership ==
    /\ Accept
    /\ \E userId \in ApiUsers, siteId \in SiteIds :
         LET r == [NoReq EXCEPT !.route = "removePassword", !.userId = userId,
                                !.siteId = siteId]
         IN  /\ sites' = UpdatePassword(siteId, Null, FALSE)
             /\ req' = Respond(r, 200, <<>>)
    /\ NoFault
    /\ UNCHANGED <<files, dirs, now, entryCount, callVars, other, slot, op, otherReq,
                   siteVars>>

\* DELETE /sites/:siteId/password: ownership, the UPDATE and the answer
ApiRemovePassword ==
    /\ Accept
    /\ \E userId \in ApiUsers, siteId \in SiteIds :
         LET r == [NoReq EXCEPT !.route = "removePassword", !.userId = userId,
                                !.siteId = siteId]
         IN  IF checkSiteOwnership(siteId, userId) = {}
             THEN /\ req' = Respond(r, 404, <<>>)
                  /\ UNCHANGED sites
             ELSE /\ sites' = UpdatePassword(siteId, Null, FALSE)
                  /\ req' = Respond(r, 200, <<>>)
    /\ NoFault
    /\ UNCHANGED <<files, dirs, now, entryCount, callVars, other, slot, op, otherReq,
                   siteVars>>

ReadRoutes == {"getSite", "listFiles", "getFile", "analytics", "export"}

\* GET /sites/:siteId, /sites/:siteId/files, /sites/:siteId/files/:filename,
\* /analytics/site/:siteId and its export: ownership, then the data of the site
ApiRead ==
    /\ Accept
    /\ \E route \in ReadRoutes, userId \in ApiUsers, siteId \in SiteIds,
          filename \in ApiFileNames :
         LET r == [NoReq EXCEPT !.route = route, !.userId = userId,
                                !.siteId = siteId,
                                !.filename = IF route = "getFile" THEN filename ELSE ""]
             filePath == SiteFilePath(userId, siteId, filename)
         IN  /\ route # "getFile" => filename = "index.html"
             /\ req' =
                  IF route = "getFile" /\ HasSeparator(filename)
                  THEN Respond(r, 400, <<>>)
                  ELSE IF checkSiteOwnership(siteId, userId) = {}
                  THEN Respond(r, 404, <<>>)
                  ELSE IF route = "getFile"
                  THEN IF filePath \in DOMAIN files
                       THEN Respond(r, 200, files[filePath])
                       ELSE Respond(r, 404, <<>>)
                  ELSE IF route = "listFiles" /\ getSiteDir(userId, siteId) \notin dirs
                  THEN Respond(r, 404, <<>>)
                  ELSE Respond(r, 200, <<route, siteId>>)
    /\ NoFault
    /\ UNCHANGED <<files, dirs, now, entryCount, callVars, other, slot, op, sites,
                   otherReq, siteVars>>

\* ------------------------------------------------- password-protected sites
MaxClock == 33
\* the attempts counted for one address
MaxCount == 7

\* PASSWORD_ATTEMPTS, in minutes
MAX_ATTEMPTS == 5
WINDOW_MS == 15
LOCKOUT_MS == 30

\* the Host header, cut at the places the code cuts it: labels and the text
\* ".lvh.me" of the base domain (the port is dropped by every reader)
Hosts ==
    {<<"lvh.me">>, <<"mysite", ".lvh.me">>, <<"open", ".lvh.me">>,
     <<"my", ".lvh.me", "site">>}
SessionIds == {"v1", "v2"}
Ips == {"ip1"}
\* method and path of a request to a subdomain
SitePaths == {"/", "/verify-password"}
VerifyPasscodes == {"123456", "654321", Undefined}

RECURSIVE Concat(_)
Concat(pieces) == IF pieces = <<>> THEN "" ELSE Head(pieces) \o Concat(Tail(pieces))

\* the pieces before the first piece that starts with a dot
RECURSIVE FirstLabel(_)
FirstLabel(host) ==
    IF host = <<>> \/ Head(host) = ".lvh.me" THEN <<>>
    ELSE <<Head(host)>> \o FirstLabel(Tail(host))

\* String.prototype.replace(piece, ''): the first occurrence only
RECURSIVE ReplaceFirst(_, _)
ReplaceFirst(host, piece) ==
    IF host = <<>> THEN <<>>
    ELSE IF Head(host) = piece THEN Tail(host)
    ELSE <<Head(host)>> \o ReplaceFirst(Tail(host), piece)

\* passwordProtectionMiddleware: req.hostname.split('.')[0]
HostnameLabel(host) ==
    IF host = <<"lvh.me">> THEN "lvh" ELSE Concat(FirstLabel(host))

\* subdomainMiddleware: host.replace('.lvh.me', '').replace('lvh.me', ''), then
\* null for '', 'localhost' and 'lvh'
SubdomainOf(host) ==
    LET subdomain == Concat(ReplaceFirst(ReplaceFirst(host, ".lvh.me"), "lvh.me"))
    IN  IF subdomain \in {"", "localhost", "lvh"} THEN Null ELSE subdomain

\* SELECT * FROM sites WHERE subdomain = ?
SiteBySubdomain(subdomain) == {s \in sites : s.subdomain = subdomain}

\* isRateLimited(ip): the answer, and the map after its deletions
IsRateLimited(ip) ==
    /\ ip \in DOMAIN passwordAttempts
    /\ clock - passwordAttempts[ip].lastAttempt <= WINDOW_MS
    /\ passwordAttempts[ip].count >= MAX_ATTEMPTS
    /\ clock - passwordAttempts[ip].lastAttempt < LOCKOUT_MS

AfterRateCheck(ip) ==
    IF ip \in DOMAIN passwordAttempts /\ ~IsRateLimited(ip)
       /\ (\/ clock - passwordAttempts[ip].lastAttempt > WINDOW_MS
           \/ passwordAttempts[ip].count >= MAX_ATTEMPTS)
    THEN [i \in DOMAIN passwordAttempts \ {ip} |-> passwordAttempts[i]]
    ELSE passwordAttempts

\* recordPasswordAttempt(ip, success) on the map m
RecordPasswordAttempt(m, ip, success) ==
    IF success
    THEN [i \in DOMAIN m \ {ip} |-> m[i]]
    ELSE LET attempts == IF ip \in DOMAIN m THEN m[ip]
                         ELSE [count |-> 0, lastAttempt |-> clock]
         IN  [i \in DOMAIN m \cup {ip} |->
                 IF i = ip THEN [count |-> attempts.count + 1, lastAttempt |-> clock]
                 ELSE m[i]]

Answer(kind, status, site, sid, ip, verify, checked) ==
    [seq |-> 1 - resp.seq, kind |-> kind, status |-> status, site |-> site,
     sid |-> sid, ip |-> ip, verify |-> verify, checked |-> checked]

\* createSubdomainRouter, the content handler: the site of req.subdomain, the
\* requested file or the index.html of the requested directory
ServeContent(host, path, sid, ip, verify) ==
    LET subdomain == SubdomainOf(host)
        found == SiteBySubdomain(subdomain)
        site == CHOOSE s \in found : TRUE
        requestedFile == IF path = "/" THEN "index.html" ELSE "verify-password"
        sitePath == Join(getSiteDir(site.owner_id, site.id), <<requestedFile>>)
    IN  IF found = {}
        THEN Answer("notfound", 200, "", sid, ip, verify, FALSE)
        ELSE IF sitePath \in DOMAIN files
        THEN Answer("content", 200, site.id, sid, ip, verify, FALSE)
        ELSE IF sitePath \in dirs /\ Join(sitePath, <<"index.html">>) \in DOMAIN files
        THEN Answer("content", 200, site.id, sid, ip, verify, FALSE)
        ELSE IF requestedFile # "index.html"
        THEN Answer("notfound", 404, "", sid, ip, verify, FALSE)
        ELSE Answer("notfound", 200, "", sid, ip, verify, FALSE)

\* a request to a subdomain: passwordProtectionMiddleware, then the content
\* handler of createSubdomainRouter
SiteRequest ==
    \E host \in Hosts \ {<<"lvh.me">>}, path \in SitePaths, sid \in SessionIds,
       ip \in Ips, passcode \in VerifyPasscodes, siteId \in SiteIds :
      LET subdomain == HostnameLabel(host)
          found == SiteBySubdomain(subdomain)
          site == CHOOSE s \in found : TRUE
          verify == path = "/verify-password"
          limited == IsRateLimited(ip)
          checked == AfterRateCheck(ip)
      IN  /\ SubdomainOf(host) # Null
          /\ ~verify => (passcode = "123456" /\ siteId = "s1")
          /\ IF \/ found = {}
                \/ ~site.password_enabled
                \/ site.password_hash = Null
                \/ <<sid, site.id>> \in session
             THEN /\ resp' = ServeContent(host, path, sid, ip, FALSE)
                  /\ UNCHANGED <<session, passwordAttempts>>
             ELSE IF ~verify
             THEN /\ resp' = Answer("form", 200, site.id, sid, ip, FALSE, FALSE)
                  /\ UNCHANGED <<session, passwordAttempts>>
             ELSE IF limited
             THEN /\ resp' = Answer("form", 429, site.id, sid, ip, TRUE, FALSE)
                  /\ UNCHANGED <<session, passwordAttempts>>
             ELSE IF siteId = site.id /\ IsValidPasscodeThrows(passcode)
             THEN /\ resp' = ServeContent(host, path, sid, ip, TRUE)
                  /\ passwordAttempts' = checked
                  /\ UNCHANGED session
             ELSE IF siteId = site.id /\ verifyPasscode(passcode, site.password_hash)
             THEN /\ passwordAttempts' = RecordPasswordAttempt(checked, ip, TRUE)
                  /\ session' = session \cup {<<sid, site.id>>}
                  /\ resp' = Answer("redirect", 302, site.id, sid, ip, TRUE, TRUE)
             ELSE /\ passwordAttempts' = RecordPasswordAttempt(checked, ip, FALSE)
                  /\ resp' = Answer("form", 401, site.id, sid, ip, TRUE, siteId = site.id)
                  /\ UNCHANGED session
          /\ UNCHANGED <<files, dirs, now, faults, entryCount, callVars, other, slot, op,
                         apiVars, clock>>

\* POST /verify-password on the main domain: passwordVerificationHandler
MainVerify ==
    \E sid \in SessionIds, ip \in Ips, passcode \in VerifyPasscodes, siteId \in SiteIds :
      LET found == {s \in sites : s.id = siteId}
          site == CHOOSE s \in found : TRUE
          limited == IsRateLimited(ip)
          checked == AfterRateCheck(ip)
      IN  /\ limited => passwordAttempts[ip].count < MaxCount
          /\ IF passcode = Undefined
             THEN /\ resp' = Answer("bad", 400, "", sid, ip, TRUE, FALSE)
                  /\ UNCHANGED <<session, passwordAttempts>>
             ELSE IF found = {}
             THEN /\ resp' = Answer("notfound", 404, "", sid, ip, TRUE, FALSE)
                  /\ UNCHANGED <<session, passwordAttempts>>
             ELSE IF limited
             THEN /\ passwordAttempts' = RecordPasswordAttempt(checked, ip, FALSE)
                  /\ resp' = Answer("form", 429, site.id, sid, ip, TRUE, FALSE)
                  /\ UNCHANGED session
             ELSE IF verifyPasscode(passcode, site.password_hash)
             THEN /\ passwordAttempts' = RecordPasswordAttempt(checked, ip, TRUE)
                  /\ session' = session \cup {<<sid, site.id>>}
                  /\ resp' = Answer("redirect", 302, site.id, sid, ip, TRUE, TRUE)
             ELSE /\ passwordAttempts' = RecordPasswordAttempt(checked, ip, FALSE)
                  /\ resp' = Answer("form", 401, site.id, sid, ip, TRUE, TRUE)
                  /\ UNCHANGED session
          /\ UNCHANGED <<files, dirs, now, faults, entryCount, callVars, other, slot, op,
                         apiVars, clock>>

\* time passes: the length of the window, or a minute more
Tick ==
    /\ \E d \in {WINDOW_MS, WINDOW_MS + 1} :
         /\ clock + d <= MaxClock
         /\ clock' = clock + d
    /\ UNCHANGED <<files, dirs, now, faults, entryCount, callVars, other, slot, op,
                   apiVars, session, passwordAttempts, resp>>

\* ------------------------------------------------------------------ claims
Range(s) == {s[i] : i \in 1..Len(s)}

\* the files and directories at or below a directory
FilesBelow(fs, dir) == [q \in {r \in DOMAIN fs : IsPrefix(dir, r)} |-> fs[q]]
DirsBelow(ds, dir) == {d \in ds : IsPrefix(dir, d)}

\* the paths a step creates or modifies
Touched ==
    {p \in DOMAIN files' : p \notin DOMAIN files \/ files'[p] # files[p]}
        \cup (dirs' \ dirs)

\* a file name whose normalized form keeps a parent-traversal segment, or
\* which is absolute
TraversalOrAbsolute(fileName) ==
    \/ fileName[1] = ""
    \/ ".." \in Range(NormalizeString(<<>>, fileName, TRUE))

\* the non-directory entries read, in archive order
RECURSIVE FileNamesOf(_)
FileNamesOf(entries) ==
    IF entries = <<>> THEN <<>>
    ELSE IF Last(Head(entries).fileName) = ""
         THEN FileNamesOf(Tail(entries))
         ELSE <<Head(entries).fileName>> \o FileNamesOf(Tail(entries))

\* C1: after any call of processUpload, succeeded or failed, the uploaded temp
\* file and the staging directory of the call no longer exist.
C1_TempRemovedAfterCall ==
    pc = "done" =>
        /\ call.path \notin DOMAIN files
        /\ tempDir \notin dirs

\* C2 as stated: every file or directory a call creates or modifies under the
\* sites root lies inside the site directory of the call.
C2_WritesInsideSiteDir ==
    [][\A p \in Touched :
          IsPrefix(sitesDir, p) =>
              IsPrefix(getSiteDir(call'.userId, call'.siteId), p)]_vars

\* C2 amended: every file a call creates or modifies under the sites root, and
\* every directory it creates there other than the missing ancestors of its
\* site directory, lies inside the site directory of the call.
C2_WritesInsideSiteDirOrAncestor ==
    [][\A p \in Touched :
          IsPrefix(sitesDir, p) =>
              \/ IsPrefix(getSiteDir(call'.userId, call'.siteId), p)
              \/ /\ p \in dirs'
                 /\ IsPrefix(p, getSiteDir(call'.userId, call'.siteId))]_vars

C2_Witness ==
    /\ pc = "done"
    /\ result.status = "ok"
    /\ call.type = "zip"
    /\ Join(siteDir, <<"sub", "index.html">>) \in DOMAIN files
    /\ Join(siteDir, <<"style.css">>) \in DOMAIN files

\* C3: an archive entry that is not a directory and whose normalized path has
\* a parent-traversal segment or is absolute makes extract fail as a whole, and
\* nothing is created for it: no write stream, no file, no directory.
C3_TraversalRejectedBeforeWrite ==
    \A i \in 1..Len(entriesRead) :
        LET fileName == entriesRead[i].fileName
            outputPath == Join(tempDir, fileName)
        IN  (Last(fileName) # "" /\ TraversalOrAbsolute(fileName)) =>
                /\ extract = "rejected"
                /\ zpc = "stopped"
                /\ i = Len(entriesRead)
                /\ \A k \in 1..Len(wstreams) : wstreams[k].entry # i
                /\ fileName \notin Range(extractedFiles)
                /\ outputPath \notin DOMAIN files
                /\ DirName(outputPath) \notin (dirs \ Prefixes(tempDir))
                /\ pc = "done" => result.status = "error"

C3_Witness ==
    /\ pc = "done"
    /\ Len(entriesRead) = 2
    /\ entriesRead[1].fileName = <<"index.html">>
    /\ entriesRead[2].fileName = <<"..", "s2", "x.css">>
    /\ result.status = "error"

\* C4: in a ZIP upload the site directory is neither created nor written
\* before extraction has succeeded, and when extraction fails the call fails
\* and leaves the site directory as it was before the call.
C4_SiteUntouchedUnlessExtracted ==
    (call.type = "zip" /\ pc # "idle" /\ extract # "resolved") =>
        /\ FilesBelow(files, siteDir) = FilesBelow(before.files, siteDir)
        /\ DirsBelow(dirs, siteDir) = DirsBelow(before.dirs, siteDir)
        /\ pc = "done" => result.status = "error"

C4_Witness ==
    /\ pc = "done"
    /\ call.type = "zip"
    /\ extract = "rejected"
    /\ result.status = "error"
    /\ Join(siteDir, <<"index.html">>) \in DOMAIN files

\* C5: extract succeeds only if some non-directory entry has the base name
\* index.html, compared case-insensitively, at any depth; when all entries pass
\* the checks and stream cleanly and there is none, it fails with the
\* must-contain-index.html reason; a result returned has hasIndexHtml = TRUE.
C5_IndexRequired ==
    LET names == FileNamesOf(entriesRead)
        hasIndex == \E n \in Range(names) : ToLower(Last(n)) = "index.html"
        clean == /\ zpc = "stopped"
                 /\ faults = before.faults
                 /\ \A n \in Range(names) :
                        /\ ~TraversalOrAbsolute(n)
                        /\ ToLower(ExtName(Last(n))) \in ALLOWED_ZIP_CONTENT
    IN  /\ extract = "resolved" => (hasIndex /\ hasIndexHtml)
        /\ (clean /\ ~hasIndex) =>
              /\ extract = "rejected"
              /\ extractError = "ZIP file must contain an index.html file"
        /\ (pc = "done" /\ result.status = "ok" /\ call.type = "zip") =>
              result.hasIndexHtml

C5_Witness ==
    /\ pc = "done"
    /\ extractedFiles = << <<"style.css">> >>
    /\ zpc = "stopped"
    /\ result.reason = "ZIP file must contain an index.html file"

\* C6: a non-directory entry whose extension, compared case-insensitively, is
\* outside the permitted content set makes extract fail for the whole archive,
\* wherever it stands: it is never skipped and the call never succeeds.
C6_DisallowedEntryAborts ==
    \A i \in 1..Len(entriesRead) :
        LET fileName == entriesRead[i].fileName
        IN  (Last(fileName) # ""
             /\ ToLower(ExtName(Last(fileName))) \notin ALLOWED_ZIP_CONTENT) =>
                /\ extract = "rejected"
                /\ zpc = "stopped"
                /\ fileName \notin Range(extractedFiles)
                /\ pc = "done" => result.status = "error"

C6_Witness ==
    /\ pc = "done"
    /\ Len(entriesRead) = 2
    /\ entriesRead[1].fileName = <<"index.html">>
    /\ entriesRead[2].fileName = <<"run.exe">>
    /\ extractedFiles = << <<"index.html">> >>
    /\ result.reason = "Unsupported file type in ZIP"

\* C7: after every successful processUpload the site directory holds
\* index.html at its root.
C7_IndexAtSiteRoot ==
    (pc = "done" /\ result.status = "ok") =>
        Join(siteDir, <<"index.html">>) \in DOMAIN files

\* C8: after a successful ZIP upload every non-directory entry is deployed at
\* its relative path, an .html/.htm file (case-insensitive) holding the
\* sanitized staged content and any other file the staged bytes; the files
\* returned are these names in archive order and hasIndexHtml is TRUE.
C8_ZipDeployed ==
    (pc = "done" /\ result.status = "ok" /\ call.type = "zip") =>
        /\ result.files = FileNamesOf(entriesRead)
        /\ result.hasIndexHtml
        /\ \A n \in Range(result.files) :
             LET destPath == Join(siteDir, n)
             IN  /\ destPath = siteDir \o n
                 /\ destPath \in DOMAIN files
                 /\ destPath \in DOMAIN written
                 /\ files[destPath] =
                      IF ToLower(ExtName(Last(n))) \in {".html", ".htm"}
                      THEN SanitizeHtml(written[destPath])
                      ELSE written[destPath]

C8_Witness ==
    /\ pc = "done"
    /\ result.status = "ok"
    /\ result.files = << <<"INDEX.HTML">>, <<"style.css">> >>
    /\ files[Join(siteDir, <<"INDEX.HTML">>)] = <<"span">>
    /\ files[Join(siteDir, <<"style.css">>)] = <<"css">>

RECURSIVE SumBytes(_, _)
SumBytes(fs, paths) ==
    IF paths = {} THEN 0
    ELSE LET p == CHOOSE q \in paths : TRUE
         IN  ByteLength(fs[p]) + SumBytes(fs, paths \ {p})

\* C9: the size a successful ZIP deployment returns is the sum of the sizes of
\* the files the upload wrote into the site directory, as written.
C9_SizeOfWrittenFiles ==
    (pc = "done" /\ result.status = "ok" /\ call.type = "zip") =>
        result.size = SumBytes(files, DOMAIN written)

\* C10: a valid upload of type html returns {html, [index.html],
\* byteLength(sanitized)}, index.html of the site directory then holds the
\* sanitized content of the uploaded file, and nothing else in the site
\* directory is created or changed.
C10_HtmlDeployed ==
    (pc = "done" /\ result.status = "ok" /\ call.type = "html") =>
        LET indexPath == siteDir \o <<"index.html">>
            clean == SanitizeHtml(call.content)
        IN  /\ result.type = "html"
            /\ result.files = << <<"index.html">> >>
            /\ result.size = ByteLength(clean)
            /\ indexPath \in DOMAIN files
            /\ files[indexPath] = clean
            /\ Unlink(FilesBelow(files, siteDir), indexPath)
                 = Unlink(FilesBelow(before.files, siteDir), indexPath)
            /\ DirsBelow(dirs, siteDir) \ {siteDir} = DirsBelow(before.dirs, siteDir) \ {siteDir}

C10_Witness ==
    /\ pc = "done"
    /\ result.status = "ok"
    /\ call.type = "html"
    /\ call.content = <<"script", "h1">>
    /\ files[siteDir \o <<"index.html">>] = <<"span", "h1">>
    /\ siteDir \o <<"style.css">> \in DOMAIN files

\* the paths a step removes
Removed ==
    {p \in DOMAIN files : p \notin DOMAIN files'} \cup (dirs \ dirs')

\* C11: when sanitizing, writing or copying the i-th extracted file fails, the
\* call fails with that error, no later file is written, and the files written
\* before it stay in the site directory.
C11_DeployFailureAborts ==
    [][/\ (pc = "deploy_write" /\ pc' # pc /\ faults' # faults) =>
            /\ pc' = "zip_rm"
            /\ result'.status = "error"
            /\ result'.reason \in {"Failed to sanitize HTML content", "write failed"}
            /\ processedFiles' = processedFiles
            /\ processedFiles = SubSeq(extractedFiles, 1, j - 1)
            /\ files' = files
       /\ (pc \in {"zip_rm", "unlink"} /\ result.status = "error") =>
            /\ FilesBelow(files', siteDir) = FilesBelow(files, siteDir)
            /\ pc' \in {pc, "unlink", "done"}
            /\ result'.status = "error"]_vars

C11_Witness ==
    /\ pc = "done"
    /\ result.reason = "write failed"
    /\ extractedFiles = << <<"index.html">>, <<"style.css">> >>
    /\ processedFiles = << <<"index.html">> >>
    /\ Join(siteDir, <<"index.html">>) \in DOMAIN files
    /\ Join(siteDir, <<"style.css">>) \notin DOMAIN files

\* C12: a failed deletion of the uploaded temp file or of the staging
\* directory never changes what processUpload returns or throws.
C12_CleanupNeverSurfaced ==
    [][(pc \in {"zip_rm", "unlink"} /\ pc' # pc) =>
          /\ result' = result
          /\ pc' = IF pc = "zip_rm" THEN "unlink" ELSE "done"]_vars

C12_Witness ==
    /\ pc = "done"
    /\ result.status = "ok"
    /\ call.type = "zip"
    /\ call.path \in DOMAIN files
    /\ tempDir \notin dirs

\* C13: a call whose file is missing, has the wrong extension, is oversize or
\* has an unknown type fails at once and creates nothing: no staging
\* directory, no site directory, no file.
C13_NoPartialStateOnInvalid ==
    LET ext == ToLower(ExtName(call.originalname))
        invalid ==
            \/ call.originalname = ""
            \/ call.type \notin {"html", "zip"}
            \/ call.type = "html" /\ (ext \notin {".html", ".htm"} \/ call.size > 5000000)
            \/ call.type = "zip" /\ (ext # ".zip" \/ call.size > 25000000)
    IN  (pc # "idle" /\ invalid) =>
            /\ pc = "done"
            /\ result.status = "error"
            /\ tempDir = <<>>
            /\ dirs = before.dirs
            /\ files = before.files

C13_Witness ==
    /\ pc = "done"
    /\ call.type = "zip"
    /\ call.originalname = "bundle.zip"
    /\ call.size = MAX_ZIP_SIZE + 1
    /\ result.reason = "ZIP file too large"
    /\ Join(siteDir, <<"index.html">>) \in DOMAIN files

ValidationReasons ==
    {"No file provided", "Invalid file type. Expected .html or .htm",
     "Invalid file type. Expected .zip", "HTML file too large",
     "ZIP file too large", "Invalid upload type"}

\* C14: a named file whose extension, lower-cased, is outside the allowlist of
\* its declared type fails validation with the reason naming the expected
\* extensions, whatever its size; a named file with an allowed extension and a
\* size within the ceiling passes.
C14_ExtensionGate ==
    LET ext == ToLower(ExtName(call.originalname))
        named == pc # "idle" /\ call.originalname # ""
    IN  /\ (named /\ call.type = "html" /\ ext \notin {".html", ".htm"}) =>
              /\ pc = "done"
              /\ result.reason = "Invalid file type. Expected .html or .htm"
        /\ (named /\ call.type = "zip" /\ ext # ".zip") =>
              /\ pc = "done"
              /\ result.reason = "Invalid file type. Expected .zip"
        /\ (named /\ call.type = "html" /\ ext \in {".html", ".htm"}
                /\ call.size <= MAX_HTML_SIZE) =>
              result.reason \notin ValidationReasons
        /\ (named /\ call.type = "zip" /\ ext = ".zip" /\ call.size <= MAX_ZIP_SIZE) =>
              result.reason \notin ValidationReasons

C14_Witness ==
    /\ pc = "done"
    /\ call.type = "html"
    /\ call.originalname = "bundle.zip"
    /\ call.size = MAX_HTML_SIZE + 1
    /\ result.reason = "Invalid file type. Expected .html or .htm"

\* C15: a correctly named file of exactly the ceiling of its type passes
\* validation and one of a byte more fails with the size reason: validation
\* accepts the size s iff s <= max.
C15_SizeGate ==
    LET ext == ToLower(ExtName(call.originalname))
        named == pc # "idle" /\ call.originalname # ""
    IN  /\ (named /\ call.type = "html" /\ ext \in {".html", ".htm"}) =>
              /\ call.size > 5000000 <=> result.reason = "HTML file too large"
              /\ call.size <= 5000000 <=> result.reason \notin ValidationReasons
        /\ (named /\ call.type = "zip" /\ ext = ".zip") =>
              /\ call.size > 25000000 <=> result.reason = "ZIP file too large"
              /\ call.size <= 25000000 <=> result.reason \notin ValidationReasons

C15_Witness ==
    /\ pc = "done"
    /\ result.status = "ok"
    /\ call.type = "zip"
    /\ call.size = 25000000

\* a path of the private part of the file system of a request context: its
\* uploaded file, its staging directory, its site directory
OwnedBy(c, p) ==
    \/ p = c.call.path
    \/ c.tempDir # <<>> /\ IsPrefix(c.tempDir, p)
    \/ c.call.siteId # "" /\ IsPrefix(getSiteDir(c.call.userId, c.call.siteId), p)

\* C16: two calls with different site ids and different uploaded files do not
\* interfere, in any interleaving: no step of one creates, changes or removes
\* the other's uploaded file or anything in the other's staging or site
\* directory, and each site directory holds its former files and what its own
\* call wrote, with the result the call computes alone.
C16_ConcurrentIndependent ==
    [][/\ slot' = slot => \A p \in Touched \cup Removed : ~OwnedBy(other, p)
       /\ pc # "idle" => \A p \in DOMAIN FilesBelow(files, siteDir) :
             \/ p \in DOMAIN before.files /\ files[p] = before.files[p]
             \/ p \in DOMAIN written /\ call.type = "zip"
             \/ p = Join(siteDir, <<"index.html">>) /\ call.type = "html"
       /\ (pc = "done" /\ result.status = "ok" /\ call.type = "html") =>
             /\ files[Join(siteDir, <<"index.html">>)] = SanitizeHtml(call.content)
             /\ result.size = ByteLength(SanitizeHtml(call.content))
       /\ (pc = "done" /\ result.status = "ok" /\ call.type = "zip") =>
             /\ result.files = FileNamesOf(entriesRead)
             /\ \A n \in Range(result.files) :
                   files[Join(siteDir, n)] =
                       IF IsHtmlFile(n) THEN SanitizeHtml(written[Join(siteDir, n)])
                       ELSE written[Join(siteDir, n)]]_vars

C16_Witness ==
    /\ pc = "done"
    /\ other.pc = "done"
    /\ result.status = "ok"
    /\ other.result.status = "ok"
    /\ call.type = "zip"
    /\ other.call.type = "zip"
    /\ tempDir = getTempFilePath("extract_s1_2")
    /\ other.tempDir = getTempFilePath("extract_s2_2")
    /\ files[Join(getSiteDir("u1", "s1"), <<"index.html">>)] = <<"span">>
    /\ files[Join(getSiteDir("u1", "s2"), <<"index.html">>)] = <<"span">>

\* a token that runs script when the page is used: a script-bearing element,
\* an event-handler attribute, or a javascript: URL in an attribute
Executable(t) ==
    t \in {"script", "iframe", "object", "embed", "h1_onclick", "img_js", "a_js",
           "form_js"}

\* C17: the sanitizer output holds no script, iframe, object or embed element
\* and no executable attribute, and an img with a javascript: src comes out
\* without src.
C17_ScriptNeutralized ==
    \A t \in Range(sanitized) : ~Executable(t)

\* C19: writeFile, copyFile and createSubdir called with a name that resolves
\* outside the site directory (a sibling whose name starts with the site id
\* included) fail with the path-traversal error and write nothing.
C19_ContainmentEnforced ==
    [][op'.name # "" =>
          LET dir == getSiteDir(op'.userId, op'.siteId)
              target == Join(dir, op'.fileName)
          IN  ~IsPrefix(dir, target) =>
                  /\ result'.reason = "path traversal detected"
                  /\ files' = files
                  /\ dirs' \ dirs \subseteq Prefixes(dir)]_vars

\* C20: once extractZip has rejected, no further entry is read or streamed and
\* no file or directory is created under the staging path of the call.
C20_AbortedAfterFailure ==
    [][(extract = "rejected" /\ call' = call) =>
          /\ entriesRead' = entriesRead
          /\ Len(wstreams') = Len(wstreams)
          /\ \A p \in Touched : ~IsPrefix(tempDir, p)]_vars

\* C21: when extractZip has resolved, every file it lists is completely
\* written to the staging directory (its write stream has finished) before the
\* deployment step stats, reads or copies it, the last entry included.
C21_StagedBeforeResolve ==
    (extract = "resolved" /\ pc \in {"await_extract", "zip_sitedir", "deploy_stat",
                                      "deploy_write"}) =>
        \A k \in 1..Len(wstreams) :
            /\ wstreams[k].state = "closed"
            /\ wstreams[k].path \in DOMAIN files

\* C22: the archive is read one entry at a time in archive order: an entry is
\* requested only at the start, after a directory entry was skipped or after
\* the stream of the entry before it ended, so at most one entry is streamed at
\* a time; a directory entry is not checked, streamed or listed; and the files
\* of a resolved extraction are the non-directory entry names in archive order.
C22_OneEntryAtATime ==
    [][/\ (entriesRead' # entriesRead /\ call' = call) =>
            /\ entriesRead' = Append(entriesRead, Last(entriesRead'))
            /\ entriesRead # <<>> =>
                  \/ Last(Last(entriesRead).fileName) = ""
                  \/ /\ Last(extractedFiles) = Last(entriesRead).fileName
                     /\ Len(extractedFiles) = Len(wstreams)
            /\ Last(Last(entriesRead').fileName) = "" =>
                  /\ zpc' = "entry"
                  /\ <<extract, extractError, hasIndexHtml>>' =
                        <<extract, extractError, hasIndexHtml>>
                  /\ files' = files /\ dirs' = dirs
       /\ Len(wstreams') - Len(extractedFiles') \in {0, 1}
       /\ Len(wstreams') > Len(extractedFiles') => zpc' \in {"pipe", "stopped"}
       /\ \A k \in 1..Len(wstreams') :
             Last(entriesRead'[wstreams'[k].entry].fileName) # ""
       /\ \A n \in Range(extractedFiles') : Last(n) # ""
       /\ extract' = "resolved" => extractedFiles' = FileNamesOf(entriesRead')]_vars

C22_Witness ==
    /\ extract = "resolved"
    /\ Len(entriesRead) = 2
    /\ entriesRead[1].fileName = <<"sub", "">>
    /\ extractedFiles = << <<"index.html">> >>

\* C23: every .html/.htm file stored in a site directory is an output of the
\* sanitizer: sanitizing it again would remove or rewrite nothing.
C23_StoredHtmlSanitized ==
    \A p \in DOMAIN files :
        (IsPrefix(sitesDir, p) /\ IsHtmlFile(p)) => SanitizeHtml(files[p]) = files[p]

\* C24: every POST /upload request for which multer stored a file ends with
\* that file removed from tmp/, whatever the answer.
C24_UploadTempRemoved ==
    (req.route = "upload" /\ req.stage = "done" /\ req.file # <<>>) =>
        req.file \notin DOMAIN files

\* C25: when a POST /upload request that reached processUpload is answered,
\* its site directory exists if and only if its site record exists.
C25_DirIffRecord ==
    [][(req.route = "upload" /\ req.stage \in {"process", "hash"} /\ slot' = slot
          /\ req'.stage = "done") =>
          ((getSiteDir(req.userId, req.siteId) \in dirs')
              <=> (\E s \in sites' : s.id = req.siteId))]_vars

\* C26: no two site records share a subdomain, and an upload is answered with
\* success only by the step that inserts its record, for a subdomain no record
\* held: of the requests that ask for one subdomain at most one succeeds.
C26_SubdomainUnique ==
    [][/\ \A a, b \in sites' : a.subdomain = b.subdomain => a = b
       /\ (req.route = "upload" /\ req.stage \in {"process", "hash"} /\ slot' = slot
             /\ req'.stage = "done" /\ req'.status = 200) =>
             /\ \A s \in sites : s.subdomain # req.subdomain
             /\ \E s \in sites' : /\ s.id = req.siteId
                                  /\ s.subdomain = req.subdomain
                                  /\ sites' = sites \cup {s}
       /\ (req.route = "upload" /\ req.stage \in {"process", "hash"} /\ slot' = slot
             /\ req'.stage = "done" /\ req'.status # 200) => sites' = sites]_vars

C26_Witness ==
    /\ req.route = "upload" /\ req.stage = "done" /\ req.status = 400
    /\ result.status = "ok"
    /\ req.subdomain = "a"
    /\ otherReq.route = "upload" /\ otherReq.status = 200
    /\ otherReq.subdomain = "a"
    /\ otherReq.userId # req.userId

\* the routes that name a site
SiteRoutes ==
    {"putFile", "deleteSite", "setPassword", "removePassword"} \cup ReadRoutes

\* the step takes a request of a user who does not own the site it names
ByNonOwner ==
    /\ reqCount' = reqCount + 1
    /\ req'.route \in SiteRoutes
    /\ checkSiteOwnership(req'.siteId, req'.userId) = {}

\* C29 as stated: a site-scoped request by a user who does not own the site is
\* answered 404, changes no record and no file, and returns no data.
C29_NonOwnerGets404 ==
    [][ByNonOwner =>
          /\ req'.stage = "done"
          /\ req'.status = 404
          /\ req'.body = <<>>
          /\ <<sites, files, dirs>>' = <<sites, files, dirs>>]_vars

\* C29 amended: such a request is answered at once with 404, or with 400 or
\* 500 when its own fields are rejected before the ownership check; it never
\* succeeds, changes no record and no file, and returns no data.
C29_NonOwnerRejected ==
    [][ByNonOwner =>
          /\ req'.stage = "done"
          /\ req'.status \in {400, 404, 500}
          /\ req'.status # 404 =>
                \/ req'.route \in {"putFile", "getFile", "setPassword"}
          /\ req'.body = <<>>
          /\ <<sites, files, dirs>>' = <<sites, files, dirs>>]_vars

C29_Witness ==
    /\ req.route = "removePassword" /\ req.stage = "done" /\ req.status = 404
    /\ req.userId = "u2"
    /\ \E s \in sites : /\ s.id = req.siteId
                        /\ s.owner_id = "u1"
                        /\ s.password_enabled
                        /\ s.password_hash # Null

\* C30: when DELETE /sites/:siteId by the owner answers success, neither the
\* site record nor the site directory (nor any file below it) exists.
C30_DeletedWholesale ==
    [][(reqCount' = reqCount + 1 /\ req'.route = "deleteSite" /\ req'.status = 200) =>
          LET dir == getSiteDir(req'.userId, req'.siteId)
          IN  /\ \A s \in sites' : s.id # req'.siteId
              /\ dir \notin dirs'
              /\ DOMAIN FilesBelow(files', dir) = {}]_vars

\* C27: a request answered with the file content of a site whose password
\* protection is enabled (password_enabled set, a password_hash stored) comes
\* from a session that holds the flag site_access_<siteId> of that same site,
\* which only a correct passcode for that site sets.
C27_ContentNeedsPasscode ==
    \A s \in sites :
        (s.password_enabled /\ s.password_hash # Null
         /\ resp.kind = "content" /\ resp.site = s.id) =>
            <<resp.sid, s.id>> \in session

\* C28: a verification attempt that reaches the rate limiter from an address
\* with MAX_ATTEMPTS or more failed attempts on record, the last of them less
\* than LOCKOUT_MS ago, is answered 429 and its passcode is not compared.
C28_LockedOutForLockout ==
    [][\A ip \in Ips :
         (/\ resp'.seq # resp.seq
          /\ resp'.verify
          /\ resp'.ip = ip
          /\ resp'.status \notin {400, 404}
          /\ ip \in DOMAIN passwordAttempts
          /\ passwordAttempts[ip].count >= MAX_ATTEMPTS
          /\ clock - passwordAttempts[ip].lastAttempt < LOCKOUT_MS) =>
             (resp'.status = 429 /\ ~resp'.checked)]_vars

Next ==
    \/ ProcessUpload
    \/ ZipMkdirTemp
    \/ ZipOpen
    \/ ZipEntry
    \/ ZipOpenReadStream
    \/ ZipReadStreamEnd
    \/ ZipEnd
    \/ WriteStream
    \/ ZipAwaitExtract
    \/ ZipCreateSiteDir
    \/ ZipStat
    \/ ZipDeployFile
    \/ ZipRmTemp
    \/ HtmlRead
    \/ HtmlCreateSiteDir
    \/ HtmlWrite
    \/ CleanupTempFile

Spec == Init /\ [][Next]_vars

\* the uploads of the two concurrent requests: each context is called once,
\* with a valid HTML file or a valid archive whose members are index.html
\* or run.exe
ValidUpload ==
    /\ pc = "idle"
    /\ validateFile(call'.originalname, call'.size, call'.type) = ""
    /\ call'.originalname \in {"site.html", "bundle.zip"}
    /\ call'.content \in {<<"script", "h1">>, <<"zip">>}

ConcurrentEntry ==
    Last(entriesRead').fileName \in {<<"index.html">>, <<"run.exe">>}

\* two requests served concurrently
NextConcurrent ==
    \/ ProcessUpload /\ ValidUpload
    \/ ZipMkdirTemp
    \/ ZipOpen
    \/ ZipEntry /\ ConcurrentEntry
    \/ ZipOpenReadStream
    \/ ZipReadStreamEnd
    \/ ZipEnd
    \/ WriteStream
    \/ ZipAwaitExtract
    \/ ZipCreateSiteDir
    \/ ZipStat
    \/ ZipDeployFile
    \/ ZipRmTemp
    \/ HtmlRead
    \/ HtmlCreateSiteDir
    \/ HtmlWrite
    \/ CleanupTempFile
    \/ Switch

SpecConcurrent == Init /\ [][NextConcurrent]_vars

\* the storage primitives called directly
NextStorage ==
    \/ StorageWriteFile
    \/ StorageCopyFile
    \/ StorageCreateSubdir

SpecStorage == Init /\ [][NextStorage]_vars

\* the other request runs while a request is waiting at an await
Awaiting ==
    \/ req.stage \notin {"none", "done"}
    \/ otherReq.stage \notin {"none", "done"}

\* the API served to two concurrent requests; uploads are HTML uploads
NextApi ==
    \/ ApiUpload
    \/ HtmlRead
    \/ HtmlCreateSiteDir
    \/ HtmlWrite
    \/ CleanupTempFile
    \/ ApiUploadReturn
    \/ ApiUploadHashed
    \/ ApiPutFile
    \/ ApiPutWrite
    \/ ApiDeleteSite
    \/ ApiSetPassword
    \/ ApiSetPasswordHashed
    \/ ApiRemovePassword
    \/ ApiRead
    \/ Switch /\ Awaiting

SpecApi == Init /\ [][NextApi]_vars

\* two deployed sites of one owner: mysite (s1), protected by the passcode
\* 123456, with an index.html and a directory verify-password holding an
\* index.html, and open (s2), unprotected
InitSite ==
    /\ files = [p \in {Join(getSiteDir("u1", "s1"), <<"index.html">>),
                        Join(getSiteDir("u1", "s1"), <<"verify-password", "index.html">>),
                        Join(getSiteDir("u1", "s2"), <<"index.html">>)} |-> <<"h1">>]
    /\ dirs = {<<"app">>, sitesDir, tmpDir, staticDir}
                \cup Prefixes(Join(getSiteDir("u1", "s1"), <<"verify-password">>))
                \cup Prefixes(getSiteDir("u1", "s2"))
    /\ sites = {[id |-> "s1", owner_id |-> "u1", subdomain |-> "mysite",
                 password_enabled |-> TRUE, password_hash |-> hashPasscode("123456")],
                [id |-> "s2", owner_id |-> "u1", subdomain |-> "open",
                 password_enabled |-> FALSE, password_hash |-> Null]}
    /\ pc = "idle"
    /\ call = NoCall
    /\ now = 0
    /\ faults = 0
    /\ entryCount = 0
    /\ result = NoResult
    /\ sanitized = <<>>
    /\ tempDir = <<>>
    /\ extract = "none"
    /\ extractError = ""
    /\ zpc = "off"
    /\ entriesRead = <<>>
    /\ hasIndexHtml = FALSE
    /\ extractedFiles = <<>>
    /\ wstreams = <<>>
    /\ j = 0
    /\ totalSize = 0
    /\ processedFiles = <<>>
    /\ written = EmptyFiles
    /\ before = [files |-> EmptyFiles, dirs |-> {}, faults |-> 0]
    /\ other = IdleContext
    /\ slot = 1
    /\ op = NoOp
    /\ req = NoReq
    /\ otherReq = NoReq
    /\ reqCount = 0
    /\ session = {}
    /\ passwordAttempts = [ip \in {} |-> 0]
    /\ clock = 0
    /\ resp = NoResp

\* visitors of the deployed sites
NextSite ==
    \/ SiteRequest
    \/ MainVerify
    \/ Tick

SpecSite == InitSite /\ [][NextSite]_vars

====
